---- MODULE Spec2Model ----
(***************************************************************************)
(* A model of the lanta tiling window manager: the orchestrator `Lanta`    *)
(* of src/lib.rs (windows, groups, outputs, docks), the focus stack of     *)
(* src/stack.rs and the layouts of src/layout/.                            *)
(*                                                                         *)
(* Conventions: Rust's Option<WindowId> is modelled with None == 0 and the *)
(* window handles 1..NumWindows; GroupId is a 0-based index as in the      *)
(* source; Vec<T> is a 1-based TLA+ sequence, so Rust index i is element   *)
(* i + 1.  A panic of the process is the absorbing state crashed = TRUE.   *)
(***************************************************************************)
EXTENDS Integers, Sequences, FiniteSets, TLC

\* ---------------------------------------------------------------- bounds
NumWindows == 2
NumGroups == 2
NumCrtcs == 2
MaxDocks == 1
MaxStack == 4

None == 0
WindowIds == 1..NumWindows
CrtcIds == 1..NumCrtcs

\* ------------------------------------------------------- generic helpers
Min(a, b) == IF a <= b THEN a ELSE b
Max(a, b) == IF a >= b THEN a ELSE b

Range(s) == {s[i] : i \in 1..Len(s)}

\* Iterator::position, 0-based; -1 stands for Option::None; P is the set of
\* the elements the predicate accepts
Position(s, P) ==
  IF \E i \in 1..Len(s) : s[i] \in P
  THEN (CHOOSE i \in 1..Len(s) : s[i] \in P /\ \A j \in 1..(i - 1) : s[j] \notin P) - 1
  ELSE -1

\* Vec::remove(position), 0-based
RemoveAt(s, pos) == [i \in 1..(Len(s) - 1) |-> IF i <= pos THEN s[i] ELSE s[i + 1]]

\* Vec::swap(a, b), 0-based
SwapAt(s, a, b) ==
  [i \in 1..Len(s) |-> IF i = a + 1 THEN s[b + 1] ELSE IF i = b + 1 THEN s[a + 1] ELSE s[i]]

\* all orderings of a finite set, as sequences without repetition
Perms(S) == {s \in [1..Cardinality(S) -> S] : \A i, j \in 1..Cardinality(S) : s[i] = s[j] => i = j}

\* ------------------------------------------------------------- viewports
Viewport(x, y, w, h) == [x |-> x, y |-> y, width |-> w, height |-> h]

\* the strut hints a dock can carry (StrutPartial)
NoStrut == [left |-> 0, right |-> 0, top |-> 0, bottom |-> 0,
            left_start_y |-> 0, left_end_y |-> 0, right_start_y |-> 0, right_end_y |-> 0,
            top_start_x |-> 0, top_end_x |-> 0, bottom_start_x |-> 0, bottom_end_x |-> 0]

BottomStrut == [NoStrut EXCEPT !.bottom = 2, !.bottom_end_x = 11]

\* Option<StrutPartial> of a dock, <<>> for none: the docks are bottom bars
BarHints == {<<BottomStrut>>}

\* Viewport::clone_from_crtc_info
clone_from_crtc_info(c) == Viewport(c.x, c.y, c.width, c.height)

\* Viewport::without_strut as compiled into the orchestrator (src/lib.rs)
lib_without_strut(vp, screen_width, screen_height, strut) ==
  LET left0 == vp.x
      right0 == vp.x + vp.width
      top0 == vp.y
      bottom0 == vp.y + vp.height
      left == IF strut.left > 0 /\ strut.left_start_y >= top0 /\ strut.left_end_y <= bottom0
              THEN Max(left0, strut.left) ELSE left0
      right == IF strut.right > 0 /\ strut.right_start_y >= top0 /\ strut.right_end_y <= bottom0
               THEN Min(right0, screen_width - strut.right) ELSE right0
      top == IF strut.top > 0 /\ strut.top_start_x >= left /\ strut.top_end_x <= right
             THEN Min(top0, strut.top) ELSE top0
      bottom == IF strut.bottom > 0 /\ strut.bottom_start_x >= left /\ strut.bottom_end_x <= right
                THEN Min(bottom0, screen_height - strut.bottom) ELSE bottom0
  IN Viewport(left, top, right - left, bottom - top)

\* Viewport::without_strut taking the bottom margin off the viewport's own
\* bottom edge instead of the screen height
without_strut_own_bottom(vp, screen_width, screen_height, strut) ==
  LET left0 == vp.x
      right0 == vp.x + vp.width
      top0 == vp.y
      bottom0 == vp.y + vp.height
      left == IF strut.left > 0 /\ strut.left_start_y >= top0 /\ strut.left_end_y <= bottom0
              THEN Max(left0, strut.left) ELSE left0
      right == IF strut.right > 0 /\ strut.right_start_y >= top0 /\ strut.right_end_y <= bottom0
               THEN Min(right0, screen_width - strut.right) ELSE right0
      top == IF strut.top > 0 /\ strut.top_start_x >= left /\ strut.top_end_x <= right
             THEN Max(top0, strut.top) ELSE top0
      bottom == IF strut.bottom > 0 /\ strut.bottom_start_x >= left /\ strut.bottom_end_x <= right
                THEN Min(bottom0, bottom0 - strut.bottom) ELSE bottom0
  IN Viewport(left, top, right - left, bottom - top)

\* Viewport::without_strut applying the bottom margin whenever the strut's
\* range overlaps the viewport's span
without_strut_overlap(vp, screen_width, screen_height, strut) ==
  LET left0 == vp.x
      right0 == vp.x + vp.width
      top0 == vp.y
      bottom0 == vp.y + vp.height
      left == IF strut.left > 0 /\ strut.left_start_y >= top0 /\ strut.left_end_y <= bottom0
              THEN Max(left0, strut.left) ELSE left0
      right == IF strut.right > 0 /\ strut.right_start_y >= top0 /\ strut.right_end_y <= bottom0
               THEN Min(right0, screen_width - strut.right) ELSE right0
      top == IF strut.top > 0 /\ strut.top_start_x >= left /\ strut.top_end_x <= right
             THEN Max(top0, strut.top) ELSE top0
      bottom == IF strut.bottom > 0 /\ strut.bottom_start_x <= right /\ strut.bottom_end_x >= left
                THEN Min(bottom0, screen_height - strut.bottom) ELSE bottom0
  IN Viewport(left, top, right - left, bottom - top)

\* Viewport::without_strut of src/viewport.rs
without_strut(vp, screen_width, screen_height, strut) ==
  LET left0 == vp.x
      right0 == vp.x + vp.width
      top0 == vp.y
      bottom0 == vp.y + vp.height
      left == IF strut.left > 0 /\ strut.left_start_y >= top0 /\ strut.left_end_y <= bottom0
              THEN Max(left0, strut.left) ELSE left0
      right == IF strut.right > 0 /\ strut.right_start_y >= top0 /\ strut.right_end_y <= bottom0
               THEN Min(right0, screen_width - strut.right) ELSE right0
      top == IF strut.top > 0 /\ strut.top_start_x >= left /\ strut.top_end_x <= right
             THEN Max(top0, strut.top) ELSE top0
      bottom == IF strut.bottom > 0 /\ strut.bottom_start_x >= left /\ strut.bottom_end_x <= right
                THEN Min(bottom0, screen_height - strut.bottom) ELSE bottom0
  IN Viewport(left, top, right - left, bottom - top)

\* whether a u32 difference of the call that gave `out` falls below zero:
\* screen_width - strut.right, screen_height - strut.bottom, right - left or
\* bottom - top
strut_underflows(out, vp, screen_width, screen_height, strut) ==
  \/ /\ strut.right > 0
     /\ strut.right_start_y >= vp.y
     /\ strut.right_end_y <= vp.y + vp.height
     /\ screen_width < strut.right
  \/ /\ strut.bottom > 0
     /\ strut.bottom_start_x >= out.x
     /\ strut.bottom_end_x <= out.x + out.width
     /\ screen_height < strut.bottom
  \/ out.width < 0
  \/ out.height < 0

RECURSIVE FoldStruts(_, _, _, _)
FoldStruts(vp, struts, w, h) ==
  IF struts = <<>> THEN vp
  ELSE FoldStruts(lib_without_strut(vp, w, h, Head(struts)), Tail(struts), w, h)

RECURSIVE FoldMax(_)
FoldMax(s) == IF s = <<>> THEN 0 ELSE Max(Head(s), FoldMax(Tail(s)))

RECURSIVE Flatten(_)
Flatten(ss) == IF ss = <<>> THEN <<>> ELSE Head(ss) \o Flatten(Tail(ss))

\* Dockable::get_strut over all docks (filter_map)
DockStruts(dk) == Flatten([i \in 1..Len(dk) |-> dk[i].strut_partial])

\* Screen::viewports taking each rectangle's own extent for the screen size
Screen_viewports_own(dk, ports) ==
  LET struts == DockStruts(dk)
  IN [i \in 1..Len(ports) |->
        FoldStruts(ports[i], struts, ports[i].x + ports[i].width, ports[i].y + ports[i].height)]

\* Screen::viewports
Screen_viewports(dk, ports) ==
  LET struts == DockStruts(dk)
      width == FoldMax([i \in 1..Len(ports) |-> ports[i].x + ports[i].width])
      height == FoldMax([i \in 1..Len(ports) |-> ports[i].y + ports[i].height])
  IN [i \in 1..Len(ports) |-> FoldStruts(ports[i], struts, width, height)]

\* --------------------------------------------------------------- layouts
Padding == 1

\* Stack<T>: the element vector and the 0-based focused index
Stack(ws, f) == [windows |-> ws, focused |-> f]

\* Stack::focused: windows.get(focused)
focused(st) == IF st.focused < Len(st.windows) THEN st.windows[st.focused + 1] ELSE None

MappedWindow(id, vp) == [id |-> id, vp |-> vp]

\* usize: overflow panics in a build with overflow checks ("debug") and wraps
\* in one without ("release"); the width is cut to 16 bits, far above any
\* length the model reaches
UsizeModulus == 2 ^ 16
OverflowPanic == "attempt to subtract with overflow"
IndexPanic == "index out of bounds"
NotFoundPanic == "element not found"

wrapping_sub(a, b) == ((a - b) + UsizeModulus) % UsizeModulus
wrapping_add(a, b) == (a + b) % UsizeModulus

\* a Stack<T> under test: the value, and the panic that ended the test if any
St(ws, f) == [windows |-> ws, focused |-> f, panic |-> ""]
StPanic(st, msg) == [st EXCEPT !.panic = msg]

\* Stack::default
Stack_default == St(<<>>, 0)

\* Stack::push inserting the element at the front instead of the end
push_front(st, value) == St(<<value>> \o st.windows, 0)

\* Stack::push
push(st, value) == St(Append(st.windows, value), Len(st.windows))

\* Stack::remove without the adjustment of the focused index
remove_keep_focus(st, P) ==
  LET position == Position(st.windows, {v \in Range(st.windows) : v \in P})
  IN IF position = -1 THEN StPanic(st, NotFoundPanic)
     ELSE St(RemoveAt(st.windows, position), st.focused)

\* Stack::remove moving the focused index only when an element before the
\* focused one is removed
remove_before_only(st, P) ==
  LET position == Position(st.windows, {v \in Range(st.windows) : v \in P})
  IN IF position = -1 THEN StPanic(st, NotFoundPanic)
     ELSE St(RemoveAt(st.windows, position),
             IF st.focused > position THEN st.focused - 1 ELSE st.focused)

\* Stack::remove; P is the set of values the predicate accepts
remove(st, P) ==
  LET position == Position(st.windows, {v \in Range(st.windows) : v \in P})
  IN IF position = -1 THEN StPanic(st, NotFoundPanic)
     ELSE St(RemoveAt(st.windows, position),
             IF st.focused >= position /\ st.focused > 0 THEN st.focused - 1 ELSE st.focused)

\* Stack::ensure_after_not_empty
ensure_after_not_empty(build, st) ==
  IF st.focused >= Len(st.windows)
  THEN IF Len(st.windows) = 0 /\ build = "debug" THEN StPanic(st, OverflowPanic)
       ELSE [st EXCEPT !.focused = wrapping_sub(Len(st.windows), 1)]
  ELSE st

\* Stack::remove_focused
remove_focused(build, st) ==
  IF Len(st.windows) = 0 THEN st
  ELSE IF st.focused >= Len(st.windows) THEN StPanic(st, IndexPanic)
  ELSE ensure_after_not_empty(build, St(RemoveAt(st.windows, st.focused), st.focused))

\* Stack::focus taking the last matching element
focus_last(st, P) ==
  LET hits == {i \in 1..Len(st.windows) : st.windows[i] \in P}
  IN IF hits # {} THEN [st EXCEPT !.focused = (CHOOSE i \in hits : \A j \in hits : j <= i) - 1]
     ELSE st

\* Stack::focus; P is the set of values the predicate accepts
focus(st, P) ==
  LET position == Position(st.windows, {v \in Range(st.windows) : v \in P})
  IN IF position # -1 THEN [st EXCEPT !.focused = position] ELSE st

\* Stack::focus_next
focus_next(build, st) ==
  IF Len(st.windows) = 0 /\ build = "debug" THEN StPanic(st, OverflowPanic)
  ELSE IF st.focused < wrapping_sub(Len(st.windows), 1)
  THEN [st EXCEPT !.focused = @ + 1]
  ELSE st

\* Stack::focus_next_wrap
focus_next_wrap(build, st) ==
  IF Len(st.windows) = 0 /\ build = "debug" THEN StPanic(st, OverflowPanic)
  ELSE IF st.focused < wrapping_sub(Len(st.windows), 1)
  THEN [st EXCEPT !.focused = @ + 1]
  ELSE [st EXCEPT !.focused = 0]

\* Stack::focus_previous
focus_previous(st) ==
  IF st.focused > 0 THEN [st EXCEPT !.focused = @ - 1] ELSE st

\* Stack::shuffle_next leaving the focused index behind
shuffle_next_stay(build, st) ==
  IF Len(st.windows) < 2 /\ build = "debug" THEN StPanic(st, OverflowPanic)
  ELSE IF st.focused <= wrapping_sub(Len(st.windows), 2)
  THEN IF st.focused >= Len(st.windows) \/ wrapping_add(st.focused, 1) >= Len(st.windows)
       THEN StPanic(st, IndexPanic)
       ELSE St(SwapAt(st.windows, st.focused, st.focused + 1), st.focused)
  ELSE st

\* Stack::shuffle_next
shuffle_next(build, st) ==
  IF Len(st.windows) < 2 /\ build = "debug" THEN StPanic(st, OverflowPanic)
  ELSE IF st.focused <= wrapping_sub(Len(st.windows), 2)
  THEN IF st.focused >= Len(st.windows) \/ wrapping_add(st.focused, 1) >= Len(st.windows)
       THEN StPanic(st, IndexPanic)
       ELSE St(SwapAt(st.windows, st.focused, st.focused + 1), st.focused + 1)
  ELSE st

\* Stack::shuffle_previous
shuffle_previous(st) ==
  IF st.focused >= 1
  THEN IF st.focused >= Len(st.windows) THEN StPanic(st, IndexPanic)
       ELSE St(SwapAt(st.windows, st.focused, st.focused - 1), st.focused - 1)
  ELSE st

\* StackLayout::layout placing the first window instead of the focused one
StackLayout_layout_first(padding, viewport, st) ==
  IF focused(st) = None THEN <<>>
  ELSE << MappedWindow(st.windows[1],
                       Viewport(viewport.x + padding, viewport.y + padding,
                                viewport.width - (padding * 2),
                                viewport.height - (padding * 2))) >>

\* StackLayout::layout
StackLayout_layout(padding, viewport, st) ==
  IF focused(st) = None THEN <<>>
  ELSE << MappedWindow(focused(st),
                       Viewport(viewport.x + padding, viewport.y + padding,
                                viewport.width - (padding * 2),
                                viewport.height - (padding * 2))) >>

\* TiledLayout::layout; the division by the length of an empty stack is the
\* panic of Layout_panic
TiledLayout_layout(padding, viewport, st) ==
  IF Len(st.windows) = 0 THEN <<>>
  ELSE LET tile_width == ((viewport.width - padding) \div Len(st.windows)) - padding
       IN [i \in 1..Len(st.windows) |->
             MappedWindow(st.windows[i],
                          Viewport(viewport.x + padding + ((i - 1) * (tile_width + padding)),
                                   viewport.y + padding,
                                   tile_width,
                                   viewport.height - (padding * 2)))]

\* Stack::slice(a..b), 0-based half-open range
slice(st, a, b) == [i \in 1..(b - a) |-> st.windows[a + i]]

\* the column of ThreeColumn::layout with every column at the left edge
ThreeColumn_column_left(padding, viewport, tile_width, col, sl) ==
  LET x == viewport.x
      tile_height == (viewport.height - (padding * (Len(sl) - 1))) \div Len(sl)
  IN [r \in 1..Len(sl) |->
        MappedWindow(sl[r], Viewport(x, viewport.y + ((r - 1) * (tile_height + padding)),
                                     tile_width, tile_height))]

\* the column of windows `sl`, placed top to bottom in column number col
ThreeColumn_column(padding, viewport, tile_width, col, sl) ==
  LET x == viewport.x + (col * (tile_width + padding))
      tile_height == (viewport.height - (padding * (Len(sl) - 1))) \div Len(sl)
  IN [r \in 1..Len(sl) |->
        MappedWindow(sl[r], Viewport(x, viewport.y + ((r - 1) * (tile_height + padding)),
                                     tile_width, tile_height))]

\* ThreeColumn::layout
ThreeColumn_layout(padding, viewport, st) ==
  LET n == Len(st.windows) IN
  CASE n = 0 -> <<>>
    [] n = 1 -> << MappedWindow(st.windows[1], viewport) >>
    [] n = 2 ->
         LET left_width == (viewport.width - padding) \div 3
             right_width == (2 * left_width) + ((viewport.width - padding) % 3)
         IN << MappedWindow(st.windows[1],
                            Viewport(viewport.x, viewport.y, left_width, viewport.height)),
               MappedWindow(st.windows[2],
                            Viewport(viewport.x + padding + left_width, viewport.y,
                                     right_width, viewport.height)) >>
    [] OTHER ->
         LET tile_width == (viewport.width - (padding * 2)) \div 3
             win_per_col == n \div 3
             leftovers == n - (3 * win_per_col)
             cols == IF leftovers = 2
                     THEN << slice(st, 0, win_per_col + 1),
                             slice(st, win_per_col + 1, (2 * win_per_col) + 1),
                             slice(st, (2 * win_per_col) + 1, n) >>
                     ELSE << slice(st, 0, win_per_col),
                             slice(st, win_per_col, (2 * win_per_col) + leftovers),
                             slice(st, (2 * win_per_col) + leftovers, n) >>
         IN ThreeColumn_column(padding, viewport, tile_width, 0, cols[1])
            \o ThreeColumn_column(padding, viewport, tile_width, 1, cols[2])
            \o ThreeColumn_column(padding, viewport, tile_width, 2, cols[3])

\* the configured layout list (Lanta.layouts), as the binary builds it
Layouts == << [kind |-> "stack", padding |-> Padding],
              [kind |-> "three", padding |-> Padding] >>

\* dyn Layout::layout
Layout_layout(l, viewport, st) ==
  IF l.kind = "stack" THEN StackLayout_layout(l.padding, viewport, st)
  ELSE IF l.kind = "tiled" THEN TiledLayout_layout(l.padding, viewport, st)
  ELSE ThreeColumn_layout(l.padding, viewport, st)

\* whether a u32 difference of the layout computation falls below zero
Layout_underflows(l, viewport, st) ==
  LET n == Len(st.windows)
      p == l.padding
  IN CASE l.kind = "stack" ->
            focused(st) # None /\ (viewport.width < p * 2 \/ viewport.height < p * 2)
       [] l.kind = "tiled" ->
            n > 0 /\ \/ viewport.width < p
                     \/ (viewport.width - p) \div n < p
                     \/ viewport.height < p * 2
       [] OTHER ->
            \/ n = 2 /\ viewport.width < p
            \/ n >= 3 /\ \/ viewport.width < p * 2
                         \/ viewport.height < p * (((n + 2) \div 3) - 1)

\* the panic a call of Layout::layout ends with, "" if it returns
Layout_panic(build, l, viewport, st) ==
  IF l.kind = "tiled" /\ Len(st.windows) = 0 THEN "attempt to divide by zero"
  ELSE IF build = "debug" /\ Layout_underflows(l, viewport, st) THEN OverflowPanic
  ELSE ""

\* ------------------------------------------------- the orchestrator state
VARIABLES
  windows,       \* Lanta.windows: Vec<Window>, records [id, group]
  groups,        \* Lanta.groups: Vec<Group>, records [focused_window, layout_id]
  crtc,          \* Lanta.crtc: the (Crtc -> (CrtcInfo, GroupId)) map, as the
                 \* sequence of its entries [crtc, info, gid] in iteration order
  current_crtc,  \* Lanta.current_crtc
  screen,        \* Lanta.screen.docks: Vec<Dock>, records [window_id, strut_partial]
  mapped,        \* the placement set shown by the last reconciliation
  recon,         \* the last reconciliation: [fresh, idem, silent]
  panic,         \* "" while the process runs, else the message it died with
  last,          \* the handler that ran last: [op, tag]
  stack,         \* a Stack<u8> under test (src/stack.rs): [windows, focused, panic]
  build,         \* whether the build checks integer overflow: "debug" or "release"
  slast,         \* the stack operation that ran last: [op, arg, pre]
  area,          \* the Viewport handed to the layout under test
  placed,        \* the last call of Layout::layout: [layout, panic, out]
  bars,          \* a Screen<TestDock> under test: the struts of its docks
  cut,           \* the last call on a Viewport or a Screen under test
  nav            \* the windows a navigation policy is asked about, and its last call

vars == <<windows, groups, crtc, current_crtc, screen, mapped, recon, panic, last, stack, build, slast,
          area, placed, bars, cut, nav>>
wmvars == <<windows, groups, crtc, current_crtc, screen, mapped, recon, panic, last>>
stackvars == <<stack, build, slast>>

\* window handles known to the display server: tiled clients, one dock,
\* one client the window manager must leave alone
DockId == NumWindows + 1
IgnoredId == NumWindows + 2
AllWindowIds == WindowIds \cup {DockId, IgnoredId}
\* the handles the window manager can come to hold
DisplayWindowIds == WindowIds \cup {DockId}

\* what the display server answers about a window: get_window_types and
\* get_window_attributes (src/x.rs)
XProps(dock, special, attrs) == [dock |-> dock, special |-> special, attrs |-> attrs]
PropsOf(w) ==
  IF w \in WindowIds THEN {XProps(FALSE, FALSE, "ok")}
  ELSE IF w = DockId THEN {XProps(TRUE, FALSE, "ok")}
  ELSE {XProps(FALSE, TRUE, "ok"), XProps(FALSE, FALSE, "override_redirect"),
        XProps(FALSE, FALSE, "err"), XProps(TRUE, TRUE, "ok")}

GroupPanic == "The focused screen must have an active group"
LayoutPanic == "The focused group must have an active layout"
EwmhPanic == "Lanta always maintains an active group."
ScreenPanic == "Must manage at least one screen"
RotateHang == "rotate_crtc does not terminate"

\* the Lanta value the variables hold; observed says whether what the display
\* server is asked to show is followed (x)
Lanta(x) ==
  [windows |-> windows, groups |-> groups, crtc |-> crtc,
   current_crtc |-> current_crtc, screen |-> screen, mapped |-> mapped,
   recon |-> [at |-> IF recon.fresh THEN <<windows, groups, crtc, screen>> ELSE <<>>,
              idem |-> recon.idem, silent |-> recon.silent],
   observed |-> x,
   panic |-> panic]

Self == Lanta(FALSE)

Panicked(S) == S.panic # ""
Panic(S, msg) == [S EXCEPT !.panic = msg]

Window(id, group) == [id |-> id, group |-> group]
Group(fw, lid) == [focused_window |-> fw, layout_id |-> lid]

\* Vec::get on the group list: is gid a valid index
groups_has(S, gid) == gid >= 0 /\ gid < Len(S.groups)

\* ByGroup::windows_in_grp
windows_in_grp(ws, group_id) ==
  LET sel == SelectSeq(ws, LAMBDA w : w.group = group_id)
  IN [i \in 1..Len(sel) |-> sel[i].id]

\* Lanta::group_idx; -1 stands for None
group_idx(S) ==
  LET p == Position(S.crtc, {e \in Range(S.crtc) : e.crtc = S.current_crtc})
  IN IF p = -1 THEN -1 ELSE S.crtc[p + 1].gid

\* Lanta::focused_window
focused_window(S) ==
  IF group_idx(S) # -1 /\ groups_has(S, group_idx(S))
  THEN S.groups[group_idx(S) + 1].focused_window ELSE None

\* Lanta::is_window_managed
is_window_managed(S, window_id) == \E i \in 1..Len(S.windows) : S.windows[i].id = window_id

\* Lanta::viewports
viewports(S) ==
  Screen_viewports(S.screen, [i \in 1..Len(S.crtc) |-> clone_from_crtc_info(S.crtc[i].info)])

\* Lanta::groupref: the expects that guard it
groupref_panic(S, group_id) ==
  IF ~groups_has(S, group_id) THEN GroupPanic
  ELSE IF S.groups[group_id + 1].layout_id >= Len(Layouts) THEN LayoutPanic
  ELSE ""

\* Lanta::groupref: the stack and layout of a group
groupref(S, group_id) ==
  LET ws == windows_in_grp(S.windows, group_id)
      group == S.groups[group_id + 1]
      p == IF group.focused_window = None THEN -1
           ELSE Position(ws, {w \in Range(ws) : w = group.focused_window})
      focused_idx == IF p = -1 THEN 0 ELSE p
  IN [stack |-> Stack(ws, focused_idx), layout |-> Layouts[group.layout_id + 1]]

\* ---------------------------------------------------------- reconciliation
\* the placements of every (output, group) pair: each output's viewport
\* handed to the layout of the group it shows
placements(S) ==
  LET vps == viewports(S)
  IN UNION { Range(Layout_layout(groupref(S, S.crtc[i].gid).layout, vps[i],
                                 groupref(S, S.crtc[i].gid).stack))
             : i \in 1..Len(S.crtc) }

PlacedIds(ps) == {pl.id : pl \in ps}

\* the calls of a reconciliation that configures and maps whatever it places
XCalls_all(prev, new) ==
  {<<"unmap", id>> : id \in PlacedIds(prev) \ PlacedIds(new)}
  \cup {<<"configure", pl.id, pl.vp>> : pl \in new}
  \cup {<<"map", pl.id>> : pl \in new}

\* the display-server calls that take the shown placement set prev to new
XCalls(prev, new) ==
  {<<"unmap", id>> : id \in PlacedIds(prev) \ PlacedIds(new)}
  \cup {<<"configure", pl.id, pl.vp>> : pl \in new \ prev}
  \cup {<<"map", id>> : id \in PlacedIds(new) \ PlacedIds(prev)}

\* what a reconciliation depends on: the windows, groups, outputs and docks
Snapshot(S) == <<S.windows, S.groups, S.crtc, S.screen>>

\* the display was changed by something other than a reconciliation
NotReconciled == [at |-> <<>>, idem |-> FALSE, silent |-> FALSE]

\* Lanta::activate_current_groups
activate_current_groups(S) ==
  IF Panicked(S) THEN S
  ELSE IF \E i \in 1..Len(S.crtc) : groupref_panic(S, S.crtc[i].gid) # ""
  THEN LET i == CHOOSE i \in 1..Len(S.crtc) :
                  /\ groupref_panic(S, S.crtc[i].gid) # ""
                  /\ \A j \in 1..(i - 1) : groupref_panic(S, S.crtc[j].gid) = ""
       IN Panic(S, groupref_panic(S, S.crtc[i].gid))
  ELSE IF ~S.observed THEN S
  ELSE [S EXCEPT !.mapped = placements(S),
                 !.recon = [at |-> Snapshot(S),
                            idem |-> S.recon.at = Snapshot(S),
                            silent |-> XCalls(S.mapped, placements(S)) = {}]]

\* Lanta::deactivate_all_groups
deactivate_all_groups(S) ==
  IF Panicked(S) THEN S
  ELSE IF \E g \in 0..(Len(S.groups) - 1) : groupref_panic(S, g) # "" THEN Panic(S, LayoutPanic)
  ELSE [S EXCEPT !.mapped = {}, !.recon = NotReconciled]

\* Lanta::update_ewmh_desktops
update_ewmh_desktops(S) ==
  IF Panicked(S) THEN S
  ELSE IF group_idx(S) = -1 THEN Panic(S, EwmhPanic)
  ELSE S

\* Lanta::find_next_unallocated_group
find_next_unallocated_group(S) ==
  LET gidx_set == {S.crtc[i].gid : i \in 1..Len(S.crtc)}
  IN CHOOSE gid \in 0..Len(S.crtc) : gid \notin gidx_set /\ \A h \in 0..(gid - 1) : h \in gidx_set

\* ------------------------------------------------------------- operations
\* Lanta::rotate_crtc stopping at the last output instead of wrapping around
rotate_crtc_nowrap(S) ==
  LET p == Position(S.crtc, {e \in Range(S.crtc) : e.crtc = S.current_crtc})
      S1 == IF Len(S.crtc) = 0 THEN S
            ELSE IF p = -1 THEN Panic(S, RotateHang)
            ELSE [S EXCEPT !.current_crtc = S.crtc[Min(p + 1, Len(S.crtc) - 1) + 1].crtc]
  IN activate_current_groups(S1)

\* Lanta::rotate_crtc
rotate_crtc(S) ==
  LET p == Position(S.crtc, {e \in Range(S.crtc) : e.crtc = S.current_crtc})
      S1 == IF Len(S.crtc) = 0 THEN S
            ELSE IF p = -1 THEN Panic(S, RotateHang)
            ELSE [S EXCEPT !.current_crtc = S.crtc[((p + 1) % Len(S.crtc)) + 1].crtc]
  IN activate_current_groups(S1)

\* Lanta::group_cycle_layouts advancing the layout of every group
group_cycle_layouts_all(S) ==
  LET gid == group_idx(S)
      S1 == IF gid # -1 /\ groups_has(S, gid) /\ Len(Layouts) # 0
            THEN [S EXCEPT !.groups = [g \in 1..Len(S.groups) |->
                                         [S.groups[g] EXCEPT !.layout_id = (@ + 1) % Len(Layouts)]]]
            ELSE S
  IN activate_current_groups(S1)

\* Lanta::group_cycle_layouts
group_cycle_layouts(S) ==
  LET gid == group_idx(S)
      S1 == IF gid # -1 /\ groups_has(S, gid) /\ Len(Layouts) # 0
            THEN [S EXCEPT !.groups[gid + 1].layout_id = (@ + 1) % Len(Layouts)]
            ELSE S
  IN activate_current_groups(S1)

\* Lanta::add_window_to_group
add_window_to_group(S, id, group) ==
  LET S1 == [S EXCEPT !.windows = Append(@, Window(id, group))]
  IN IF ~groups_has(S1, group) THEN Panic(S1, GroupPanic)
     ELSE LET S2 == IF S1.groups[group + 1].focused_window = None
                    THEN [S1 EXCEPT !.groups[group + 1].focused_window = id]
                    ELSE S1
          IN update_ewmh_desktops(activate_current_groups(S2))

\* Lanta::add_window_to_active_group
add_window_to_active_group(S, id) ==
  IF group_idx(S) # -1 THEN add_window_to_group(S, id, group_idx(S)) ELSE S

\* Lanta::remove_window
remove_window(S, id) ==
  LET p == Position(S.windows, {w \in Range(S.windows) : w.id # id})
      window == S.windows[p + 1]
      q == Position(S.windows, {w \in Range(S.windows) : w.group = window.group /\ w.id # id})
      S1 == IF p = -1 THEN S
            ELSE IF ~groups_has(S, window.group) THEN S
            ELSE IF window.id = S.groups[window.group + 1].focused_window
            THEN [S EXCEPT !.groups[window.group + 1].focused_window =
                             IF q = -1 THEN None ELSE S.windows[q + 1].id]
            ELSE S
      S2 == [S1 EXCEPT !.windows = SelectSeq(@, LAMBDA w : w.id # id)]
  IN update_ewmh_desktops(activate_current_groups(S2))

\* the closures handed to the focus, swap and group shifting operations;
\* -1 stands for None
next_idx[cur \in Int, len \in Int] == IF cur + 1 < len THEN cur + 1 ELSE -1
prev_idx[cur \in Int, len \in Int] == IF cur >= 1 THEN cur - 1 ELSE -1

\* Lanta::modify_focus_group_window_with
modify_focus_group_window_with(S, fun) ==
  LET gid == group_idx(S)
      ws == windows_in_grp(S.windows, gid)
      fw == S.groups[gid + 1].focused_window
      p == Position(ws, {w \in Range(ws) : w = fw})
      w == IF p = -1 THEN 0 ELSE p
      new_focus == fun[w, Len(ws)]
  IN IF gid = -1 \/ ~groups_has(S, gid) THEN S
     ELSE IF fw = None \/ new_focus = -1 THEN S
     ELSE activate_current_groups(
            [S EXCEPT !.groups[gid + 1].focused_window =
                        IF new_focus < Len(ws) THEN ws[new_focus + 1] ELSE None])

\* Lanta::swap_windows writing only the first of the two records
swap_windows_half(S, lhs, rhs) ==
  LET lhs_pos == Position(S.windows, {w \in Range(S.windows) : w.id = lhs})
      rhs_pos == Position(S.windows, {w \in Range(S.windows) : w.id = rhs})
  IN IF lhs_pos # -1 /\ rhs_pos # -1
     THEN [S EXCEPT !.windows = [S.windows EXCEPT ![lhs_pos + 1].id = rhs]]
     ELSE S

\* Lanta::swap_windows
swap_windows(S, lhs, rhs) ==
  LET lhs_pos == Position(S.windows, {w \in Range(S.windows) : w.id = lhs})
      rhs_pos == Position(S.windows, {w \in Range(S.windows) : w.id = rhs})
  IN IF lhs_pos # -1 /\ rhs_pos # -1
     THEN LET ws1 == [S.windows EXCEPT ![lhs_pos + 1].id = rhs]
          IN [S EXCEPT !.windows = [ws1 EXCEPT ![rhs_pos + 1].id = lhs]]
     ELSE S

\* Lanta::swap_in_group_with exchanging the focused window with the first
\* window of the group
swap_in_group_with_first(S, fun) ==
  LET gid == group_idx(S)
      wid == IF groups_has(S, gid) THEN S.groups[gid + 1].focused_window ELSE None
      ws == windows_in_grp(S.windows, gid)
      pos == Position(ws, {w \in Range(ws) : w = wid})
      nextpos == fun[pos, Len(ws)]
  IN IF gid = -1 \/ wid = None \/ pos = -1 \/ nextpos = -1 THEN S
     ELSE IF nextpos < Len(ws)
     THEN activate_current_groups(swap_windows(S, wid, ws[1]))
     ELSE S

\* Lanta::swap_in_group_with handing the focus to the neighbour
swap_in_group_with_refocus(S, fun) ==
  LET gid == group_idx(S)
      wid == IF groups_has(S, gid) THEN S.groups[gid + 1].focused_window ELSE None
      ws == windows_in_grp(S.windows, gid)
      pos == Position(ws, {w \in Range(ws) : w = wid})
      nextpos == fun[pos, Len(ws)]
  IN IF gid = -1 \/ wid = None \/ pos = -1 \/ nextpos = -1 THEN S
     ELSE IF nextpos < Len(ws)
     THEN activate_current_groups(
            [swap_windows(S, wid, ws[nextpos + 1])
               EXCEPT !.groups[gid + 1].focused_window = ws[nextpos + 1]])
     ELSE S

\* Lanta::swap_in_group_with
swap_in_group_with(S, fun) ==
  LET gid == group_idx(S)
      wid == IF groups_has(S, gid) THEN S.groups[gid + 1].focused_window ELSE None
      ws == windows_in_grp(S.windows, gid)
      pos == Position(ws, {w \in Range(ws) : w = wid})
      nextpos == fun[pos, Len(ws)]
  IN IF gid = -1 \/ wid = None \/ pos = -1 \/ nextpos = -1 THEN S
     ELSE IF nextpos < Len(ws)
     THEN activate_current_groups(swap_windows(S, wid, ws[nextpos + 1]))
     ELSE S

\* Lanta::focus_window
focus_window(S, wid) ==
  LET p == Position(S.windows, {w \in Range(S.windows) : w.id = wid})
      w == S.windows[p + 1]
      c == Position(S.crtc, {e \in Range(S.crtc) : e.gid = w.group})
      S1 == [S EXCEPT !.groups[w.group + 1].focused_window = w.id]
      S2 == IF c # -1 THEN [S1 EXCEPT !.current_crtc = S.crtc[c + 1].crtc] ELSE S1
  IN IF p = -1 THEN S
     ELSE IF ~groups_has(S, w.group) THEN S
     ELSE activate_current_groups(S2)

\* Lanta::move_window_to_group
move_window_to_group(S, id, group) ==
  [S EXCEPT !.windows = [i \in 1..Len(S.windows) |->
                           IF S.windows[i].id = id
                           THEN [S.windows[i] EXCEPT !.group = group]
                           ELSE S.windows[i]]]

\* Lanta::focus_group handing the old group to every other output
focus_group_demote_all(S, new_idx) ==
  IF Panicked(S) THEN S
  ELSE IF new_idx >= Len(S.groups) THEN S
  ELSE LET old_idx == group_idx(S)
           ct1 == IF old_idx # -1 /\ old_idx # new_idx
                  THEN [i \in 1..Len(S.crtc) |-> [S.crtc[i] EXCEPT !.gid = old_idx]]
                  ELSE S.crtc
           ct2 == [i \in 1..Len(ct1) |->
                     IF ct1[i].crtc = S.current_crtc
                     THEN [ct1[i] EXCEPT !.gid = new_idx] ELSE ct1[i]]
       IN update_ewmh_desktops([S EXCEPT !.crtc = ct2])

\* Lanta::focus_group without handing the old group to the output that
\* showed the new one
focus_group_noswap(S, new_idx) ==
  IF Panicked(S) THEN S
  ELSE IF new_idx >= Len(S.groups) THEN S
  ELSE LET ct2 == [i \in 1..Len(S.crtc) |->
                     IF S.crtc[i].crtc = S.current_crtc
                     THEN [S.crtc[i] EXCEPT !.gid = new_idx] ELSE S.crtc[i]]
       IN update_ewmh_desktops([S EXCEPT !.crtc = ct2])

\* Lanta::focus_group
focus_group(S, new_idx) ==
  IF Panicked(S) THEN S
  ELSE IF new_idx >= Len(S.groups) THEN S
  ELSE LET old_idx == group_idx(S)
           ct1 == IF old_idx # -1 /\ old_idx # new_idx
                  THEN [i \in 1..Len(S.crtc) |->
                          IF S.crtc[i].gid = new_idx
                          THEN [S.crtc[i] EXCEPT !.gid = old_idx] ELSE S.crtc[i]]
                  ELSE S.crtc
           ct2 == [i \in 1..Len(ct1) |->
                     IF ct1[i].crtc = S.current_crtc
                     THEN [ct1[i] EXCEPT !.gid = new_idx] ELSE ct1[i]]
       IN update_ewmh_desktops([S EXCEPT !.crtc = ct2])

\* Lanta::shift_group wrapping around at the first and the last group
shift_group_wrap(S, fun) ==
  LET next_group == IF group_idx(S) = -1 THEN -1
                    ELSE IF fun[group_idx(S), Len(S.groups)] = -1
                    THEN Len(S.groups) - 1 - group_idx(S)
                    ELSE fun[group_idx(S), Len(S.groups)]
  IN IF next_group = -1 THEN S
     ELSE activate_current_groups(focus_group(deactivate_all_groups(S), next_group))

\* Lanta::shift_group
shift_group(S, fun) ==
  LET next_group == IF group_idx(S) = -1 THEN -1 ELSE fun[group_idx(S), Len(S.groups)]
  IN IF next_group = -1 THEN S
     ELSE activate_current_groups(focus_group(deactivate_all_groups(S), next_group))

\* Lanta::move_focused_to_group
move_focused_to_group(S, fun) ==
  LET gid == IF group_idx(S) = -1 THEN -1 ELSE fun[group_idx(S), Len(S.groups)]
      id == focused_window(S)
      S1 == IF id # None THEN move_window_to_group(S, id, gid) ELSE S
  IN IF gid = -1 THEN S
     ELSE activate_current_groups(focus_group(deactivate_all_groups(S1), gid))

\* Lanta::manage_window without the check for a window already managed
manage_window_unchecked(S, window_id, props, hint) ==
  IF props.attrs # "ok" THEN S
  ELSE IF props.special THEN S
  ELSE IF props.dock
  THEN activate_current_groups(
         [S EXCEPT !.screen = Append(@, [window_id |-> window_id, strut_partial |-> hint])])
  ELSE activate_current_groups(add_window_to_active_group(S, window_id))

\* Lanta::manage_window without the return on the Notification, Tooltip and
\* Utility window types
manage_window_any_type(S, window_id, props, hint) ==
  IF is_window_managed(S, window_id) THEN S
  ELSE IF props.attrs # "ok" THEN S
  ELSE IF props.dock
  THEN activate_current_groups(
         [S EXCEPT !.screen = Append(@, [window_id |-> window_id, strut_partial |-> hint])])
  ELSE activate_current_groups(add_window_to_active_group(S, window_id))

\* Lanta::manage_window; props and hint are the display server's answers
manage_window(S, window_id, props, hint) ==
  IF is_window_managed(S, window_id) THEN S
  ELSE IF props.attrs # "ok" THEN S
  ELSE IF props.special THEN S
  ELSE IF props.dock
  THEN activate_current_groups(
         [S EXCEPT !.screen = Append(@, [window_id |-> window_id, strut_partial |-> hint])])
  ELSE activate_current_groups(add_window_to_active_group(S, window_id))

\* Screen::remove_dock
remove_dock(S, window_id) ==
  [S EXCEPT !.screen = SelectSeq(@, LAMBDA d : d.window_id # window_id)]

\* Lanta::unmanage_window
unmanage_window(S, window_id) ==
  LET S1 == remove_dock(S, window_id)
      S2 == IF is_window_managed(S1, window_id) THEN remove_window(S1, window_id) ELSE S1
  IN activate_current_groups(S2)

\* Lanta::on_map_request
on_map_request(S, window_id, props, hint) ==
  LET p == Position(S.windows, {w \in Range(S.windows) : w.id = window_id})
      w == S.windows[p + 1]
  IN IF ~is_window_managed(S, window_id) THEN manage_window(S, window_id, props, hint)
     ELSE IF groups_has(S, w.group)
     THEN [S EXCEPT !.groups[w.group + 1].focused_window = w.id]
     ELSE S

\* Lanta::on_unmap_notify
on_unmap_notify(S, window_id) ==
  IF is_window_managed(S, window_id) THEN remove_window(S, window_id) ELSE S

\* Lanta::on_destroy_notify
on_destroy_notify(S, window_id) == unmanage_window(S, window_id)

\* Lanta::on_enter_notify
on_enter_notify(S, window_id) == focus_window(S, window_id)

\* the entries of a map in the iteration order `order` (a sequence of keys)
Reorder(entries, order) ==
  LET keys == SelectSeq(order, LAMBDA k : \E i \in 1..Len(entries) : entries[i].crtc = k)
  IN [i \in 1..Len(keys) |-> entries[Position(entries, {e \in Range(entries) : e.crtc = keys[i]}) + 1]]

\* Lanta::on_crtc_change giving a new output the number of outputs as GroupId
on_crtc_change_count(S, change, order) ==
  LET known == \E i \in 1..Len(S.crtc) : S.crtc[i].crtc = change.crtc
      gidx == Len(S.crtc)
      removed == IF known
                 THEN Reorder(SelectSeq(S.crtc, LAMBDA e : e.crtc # change.crtc), order)
                 ELSE S.crtc
  IN IF change.info.width > 0 /\ change.info.height > 0
     THEN IF ~known
          THEN [S EXCEPT !.crtc = Reorder(Append(@, [crtc |-> change.crtc,
                                                      info |-> change.info,
                                                      gid |-> gidx]), order)]
          ELSE [S EXCEPT !.crtc = [i \in 1..Len(S.crtc) |->
                                     IF S.crtc[i].crtc = change.crtc
                                     THEN [S.crtc[i] EXCEPT !.info = change.info]
                                     ELSE S.crtc[i]]]
     ELSE IF S.current_crtc = change.crtc
     THEN IF removed = <<>> THEN Panic([S EXCEPT !.crtc = removed], ScreenPanic)
          ELSE [S EXCEPT !.crtc = removed, !.current_crtc = removed[1].crtc]
     ELSE [S EXCEPT !.crtc = removed]

\* Lanta::on_crtc_change removing an output only when both its width and
\* its height are zero
on_crtc_change_either(S, change, order) ==
  LET known == \E i \in 1..Len(S.crtc) : S.crtc[i].crtc = change.crtc
      gidx == find_next_unallocated_group(S)
      removed == IF known
                 THEN Reorder(SelectSeq(S.crtc, LAMBDA e : e.crtc # change.crtc), order)
                 ELSE S.crtc
  IN IF change.info.width > 0 \/ change.info.height > 0
     THEN IF ~known
          THEN [S EXCEPT !.crtc = Append(@, [crtc |-> change.crtc,
                                             info |-> change.info,
                                             gid |-> gidx])]
          ELSE [S EXCEPT !.crtc = [i \in 1..Len(S.crtc) |->
                                     IF S.crtc[i].crtc = change.crtc
                                     THEN [S.crtc[i] EXCEPT !.info = change.info]
                                     ELSE S.crtc[i]]]
     ELSE IF S.current_crtc = change.crtc
     THEN IF removed = <<>> THEN Panic([S EXCEPT !.crtc = removed], ScreenPanic)
          ELSE [S EXCEPT !.crtc = removed, !.current_crtc = removed[1].crtc]
     ELSE [S EXCEPT !.crtc = removed]

\* Lanta::on_crtc_change keeping the current output when it is removed
on_crtc_change_keep(S, change, order) ==
  LET known == \E i \in 1..Len(S.crtc) : S.crtc[i].crtc = change.crtc
      gidx == find_next_unallocated_group(S)
      removed == IF known
                 THEN Reorder(SelectSeq(S.crtc, LAMBDA e : e.crtc # change.crtc), order)
                 ELSE S.crtc
  IN IF change.info.width > 0 /\ change.info.height > 0
     THEN IF ~known
          THEN [S EXCEPT !.crtc = Reorder(Append(@, [crtc |-> change.crtc,
                                                      info |-> change.info,
                                                      gid |-> gidx]), order)]
          ELSE [S EXCEPT !.crtc = [i \in 1..Len(S.crtc) |->
                                     IF S.crtc[i].crtc = change.crtc
                                     THEN [S.crtc[i] EXCEPT !.info = change.info]
                                     ELSE S.crtc[i]]]
     ELSE [S EXCEPT !.crtc = removed]

\* Lanta::on_crtc_change; a HashMap's iteration order after an insertion or a
\* removal is unspecified: `order` is the one the map takes
on_crtc_change(S, change, order) ==
  LET known == \E i \in 1..Len(S.crtc) : S.crtc[i].crtc = change.crtc
      gidx == find_next_unallocated_group(S)
      removed == IF known
                 THEN Reorder(SelectSeq(S.crtc, LAMBDA e : e.crtc # change.crtc), order)
                 ELSE S.crtc
  IN IF change.info.width > 0 /\ change.info.height > 0
     THEN IF ~known
          THEN [S EXCEPT !.crtc = Reorder(Append(@, [crtc |-> change.crtc,
                                                      info |-> change.info,
                                                      gid |-> gidx]), order)]
          ELSE [S EXCEPT !.crtc = [i \in 1..Len(S.crtc) |->
                                     IF S.crtc[i].crtc = change.crtc
                                     THEN [S.crtc[i] EXCEPT !.info = change.info]
                                     ELSE S.crtc[i]]]
     ELSE IF S.current_crtc = change.crtc
     THEN IF removed = <<>> THEN Panic([S EXCEPT !.crtc = removed], ScreenPanic)
          ELSE [S EXCEPT !.crtc = removed, !.current_crtc = removed[1].crtc]
     ELSE [S EXCEPT !.crtc = removed]

\* ------------------------------------------------------ the state machine
CrtcInfo(x, y, w, h) == [x |-> x, y |-> y, width |-> w, height |-> h]

\* the geometry the display server reports for an output; width 0 is the
\* report of a disabled output
OutputGeom(c) == CrtcInfo(16 * (c - 1), 0, 12, 8)
Disabled(c) == CrtcInfo(0, 0, 0, 0)

Set(S) ==
  /\ windows' = S.windows
  /\ groups' = S.groups
  /\ crtc' = S.crtc
  /\ current_crtc' = S.current_crtc
  /\ screen' = S.screen
  /\ panic' = S.panic

Last(op, tag) == [op |-> op, tag |-> tag]

\* what is kept of the last reconciliation: whether the state is still the one
\* it saw (fresh), whether it ran on the state the one before it saw (idem),
\* and whether it issued no map, unmap or configure call (silent)
Recon(S) == [fresh |-> S.recon.at = Snapshot(S), idem |-> S.recon.idem, silent |-> S.recon.silent]

\* One step of the event loop (Lanta::run): the handler takes the state to S.
\* The specification of the orchestrator records which handler ran (last);
\* the specification of the display (x) records the placement set instead.
Handler(x, op, tag, S) ==
  /\ panic = ""
  /\ \E T \in {S} : Set(T)
  /\ IF x THEN mapped' = S.mapped /\ recon' = Recon(S) /\ last' = last
          ELSE mapped' = mapped /\ recon' = recon /\ last' = Last(op, tag)
  /\ UNCHANGED <<stackvars, area, placed, bars, cut, nav>>

\* Lanta::new on a display with the outputs K, listed in the order enum and
\* hashed in the order hash, and no client windows
New(enum, hash, info) ==
  LET ct == [i \in 1..Len(enum) |-> [crtc |-> enum[i], info |-> info[enum[i]], gid |-> i - 1]]
      entries == Reorder(ct, hash)
  IN [windows |-> <<>>,
      groups |-> [g \in 1..NumGroups |-> Group(None, 0)],
      crtc |-> entries,
      current_crtc |-> entries[1].crtc,
      screen |-> <<>>,
      mapped |-> {},
      recon |-> NotReconciled,
      observed |-> TRUE,
      panic |-> ""]


WMInit ==
  \E K \in (SUBSET CrtcIds) \ {{}} :
    \E enum \in Perms(K), hash \in Perms(K), info \in {[c \in K |-> OutputGeom(c)]} :
      /\ ~Panicked(update_ewmh_desktops(activate_current_groups(New(enum, hash, info))))
      /\ windows = <<>>
      /\ groups = New(enum, hash, info).groups
      /\ crtc = New(enum, hash, info).crtc
      /\ current_crtc = New(enum, hash, info).current_crtc
      /\ screen = <<>>
      /\ mapped = {}
      /\ recon = Recon(activate_current_groups(New(enum, hash, info)))
      /\ panic = ""
      /\ last = Last("new", "")

\* no stack is under test while the orchestrator runs
StackIdle == stack = Stack_default /\ build = "release" /\ slast = [op |-> "new", arg |-> {}, pre |-> Stack_default]

\* no layout is under test either
NotPlaced == [layout |-> [kind |-> "none", padding |-> 0], panic |-> "", out |-> <<>>]
\* nor a viewport or a screen
NotCut == [op |-> "none", panic |-> "", out |-> <<>>]
\* nor a navigation policy
NotNav == [windows |-> <<>>, policy |-> "none", dir |-> "none", focus |-> 0, out |-> <<>>]
LayoutIdle ==
  area = Viewport(0, 0, 0, 0) /\ placed = NotPlaced /\ bars = <<>> /\ cut = NotCut /\ nav = NotNav

Init == WMInit /\ StackIdle /\ LayoutIdle

ManageTag(S, w, props) ==
  IF is_window_managed(S, w) THEN "managed"
  ELSE IF props.attrs # "ok" \/ props.special THEN "ignored"
  ELSE IF props.dock THEN "dock"
  ELSE "normal"

\* Event::MapRequest
MapRequest(x, w) ==
  \E props \in PropsOf(w), hint \in BarHints :
    /\ ManageTag(Lanta(x), w, props) = "dock" => Len(screen) < MaxDocks
    /\ Handler(x, "map_request", ManageTag(Lanta(x), w, props),
               on_map_request(Lanta(x), w, props, hint))

\* Lanta::manage_window called on its own, as Lanta::new does for each window
\* the display server lists
ManageWindow(x, w) ==
  \E props \in PropsOf(w), hint \in BarHints :
    /\ ManageTag(Lanta(x), w, props) = "dock" => Len(screen) < MaxDocks
    /\ Handler(x, "manage_window", ManageTag(Lanta(x), w, props),
               manage_window(Lanta(x), w, props, hint))

FocusTag(S, w) ==
  IF ~is_window_managed(S, w) THEN "unmanaged"
  ELSE LET g == S.windows[Position(S.windows, {e \in Range(S.windows) : e.id = w}) + 1].group
       IN IF groups_has(S, g) /\ S.groups[g + 1].focused_window = w
          THEN "focused" ELSE "unfocused"

\* Event::UnmapNotify
UnmapNotify(x, w) == Handler(x, "unmap_notify", FocusTag(Lanta(x), w), on_unmap_notify(Lanta(x), w))

\* Event::DestroyNotify
DestroyNotify(x, w) == Handler(x, "destroy_notify", FocusTag(Lanta(x), w), on_destroy_notify(Lanta(x), w))

\* Event::EnterNotify
EnterNotify(x, w) == Handler(x, "enter_notify", FocusTag(Lanta(x), w), on_enter_notify(Lanta(x), w))

CrtcTag(S, c, info) ==
  IF info.width = 0
  THEN IF ~\E i \in 1..Len(S.crtc) : S.crtc[i].crtc = c THEN "remove_unknown"
       ELSE IF S.current_crtc = c THEN "remove_current" ELSE "remove_other"
  ELSE IF \E i \in 1..Len(S.crtc) : S.crtc[i].crtc = c THEN "update" ELSE "add"

\* the iteration orders the map can take once the change is applied: any
\* order of its keys after an insertion or a removal, its order as it is else
Orders(S, c, info) ==
  LET keys == {S.crtc[i].crtc : i \in 1..Len(S.crtc)}
  IN IF CrtcTag(S, c, info) = "add" THEN Perms(keys \cup {c})
     ELSE IF CrtcTag(S, c, info) \in {"remove_current", "remove_other"} THEN Perms(keys \ {c})
     ELSE {[i \in 1..Len(S.crtc) |-> S.crtc[i].crtc]}

\* Event::CrtcChange
CrtcChange(x, c) ==
  \E info \in {OutputGeom(c), Disabled(c)} :
    \E order \in Orders(Lanta(x), c, info) :
    Handler(x, "crtc_change", CrtcTag(Lanta(x), c, info),
            on_crtc_change(Lanta(x), [crtc |-> c, info |-> info], order))

\* the geometry reported for an output whose mode was changed
Resized(c) == CrtcInfo(16 * (c - 1), 0, 10, 6)

\* Event::CrtcChange reporting a new mode
CrtcResize(x, c) ==
  \E order \in Orders(Lanta(x), c, Resized(c)) :
    Handler(x, "crtc_change", CrtcTag(Lanta(x), c, Resized(c)),
            on_crtc_change(Lanta(x), [crtc |-> c, info |-> Resized(c)], order))

\* Event::KeyPress of a key bound to a command of src/cmd.rs
Command(x, op, S) ==
  Handler(x, op, IF focused_window(Lanta(x)) = None THEN "nofocus" ELSE "focus", S)

RotateCrtc(x) == Command(x, "rotate_crtc", rotate_crtc(Lanta(x)))
GroupCycleLayouts(x) == Command(x, "group_cycle_layouts", group_cycle_layouts(Lanta(x)))
FocusNextInGroup(x) ==
  Command(x, "focus_next_in_group", modify_focus_group_window_with(Lanta(x), next_idx))
FocusPreviousInGroup(x) ==
  Command(x, "focus_previous_in_group", modify_focus_group_window_with(Lanta(x), prev_idx))
SwapWithNextInGroup(x) == Command(x, "swap_with_next_in_group", swap_in_group_with(Lanta(x), next_idx))
SwapWithPreviousInGroup(x) ==
  Command(x, "swap_with_previous_in_group", swap_in_group_with(Lanta(x), prev_idx))
NextGroup(x) == Command(x, "next_group", shift_group(Lanta(x), next_idx))
PrevGroup(x) == Command(x, "prev_group", shift_group(Lanta(x), prev_idx))
MoveFocusedToNextGroup(x) ==
  Command(x, "move_focused_to_next_group", move_focused_to_group(Lanta(x), next_idx))
MoveFocusedToPrevGroup(x) ==
  Command(x, "move_focused_to_prev_group", move_focused_to_group(Lanta(x), prev_idx))

\* the orchestrator: every event and command but the layout cycle
Next ==
  \/ \E w \in AllWindowIds : MapRequest(FALSE, w)
  \/ \E w \in DisplayWindowIds : ManageWindow(FALSE, w)
  \/ \E w \in DisplayWindowIds : UnmapNotify(FALSE, w)
  \/ \E w \in DisplayWindowIds : DestroyNotify(FALSE, w)
  \/ \E w \in DisplayWindowIds : EnterNotify(FALSE, w)
  \/ \E c \in CrtcIds : CrtcChange(FALSE, c)
  \/ RotateCrtc(FALSE)
  \/ FocusNextInGroup(FALSE)
  \/ FocusPreviousInGroup(FALSE)
  \/ SwapWithNextInGroup(FALSE)
  \/ SwapWithPreviousInGroup(FALSE)
  \/ NextGroup(FALSE)
  \/ PrevGroup(FALSE)
  \/ MoveFocusedToNextGroup(FALSE)
  \/ MoveFocusedToPrevGroup(FALSE)

Spec == Init /\ [][Next]_vars

\* the display: the handlers that change what is shown, observed through the
\* placement set
NextDisplay ==
  \/ \E w \in DisplayWindowIds : MapRequest(TRUE, w)
  \/ \E w \in DisplayWindowIds : UnmapNotify(TRUE, w)
  \/ DestroyNotify(TRUE, DockId)
  \/ RotateCrtc(TRUE)
  \/ GroupCycleLayouts(TRUE)
  \/ FocusNextInGroup(TRUE)
  \/ FocusPreviousInGroup(TRUE)
  \/ NextGroup(TRUE)
  \/ PrevGroup(TRUE)

SpecDisplay == Init /\ [][NextDisplay]_vars

\* ------------------------------------------------------ the stack under test
NumElems == 3
Elems == 1..NumElems

\* a fresh stack (Stack::new), in either build
StackInit ==
  /\ stack = Stack_default
  /\ build \in {"debug", "release"}
  /\ slast = [op |-> "new", arg |-> {}, pre |-> Stack_default]

\* one call on the stack under test, taking it to st
StackOp(op, arg, st) ==
  /\ stack.panic = ""
  /\ stack' = st
  /\ slast' = [op |-> op, arg |-> arg, pre |-> stack]
  /\ UNCHANGED <<build, wmvars, area, placed, bars, cut, nav>>

Push(v) == Len(stack.windows) < MaxStack /\ StackOp("push", {v}, push(stack, v))
Remove(P) == StackOp("remove", P, remove(stack, P))
RemoveFocused == StackOp("remove_focused", {}, remove_focused(build, stack))
Focus(P) == StackOp("focus", P, focus(stack, P))
\* on an empty stack a release build counts the focused index up without end:
\* the count is followed up to MaxStack
FocusNext == stack.focused < MaxStack /\ StackOp("focus_next", {}, focus_next(build, stack))
FocusNextWrap ==
  stack.focused < MaxStack /\ StackOp("focus_next_wrap", {}, focus_next_wrap(build, stack))
\* likewise it counts down from the wrapped index: followed for MaxStack steps
FocusPrevious ==
  /\ stack.focused <= MaxStack \/ stack.focused >= UsizeModulus - MaxStack
  /\ StackOp("focus_previous", {}, focus_previous(stack))
ShuffleNext == StackOp("shuffle_next", {}, shuffle_next(build, stack))
ShufflePrevious == StackOp("shuffle_previous", {}, shuffle_previous(stack))

NextStack ==
  \/ \E v \in Elems : Push(v)
  \/ \E P \in SUBSET Elems : Remove(P)
  \/ RemoveFocused
  \/ \E P \in SUBSET Elems : Focus(P)
  \/ FocusNext
  \/ FocusNextWrap
  \/ FocusPrevious
  \/ ShuffleNext
  \/ ShufflePrevious

\* the orchestrator at rest while the stack is under test
WMIdle ==
  /\ windows = <<>>
  /\ groups = [g \in 1..NumGroups |-> Group(None, 0)]
  /\ crtc = << [crtc |-> 1, info |-> CrtcInfo(0, 0, 12, 8), gid |-> 0] >>
  /\ current_crtc = 1
  /\ screen = <<>>
  /\ mapped = {}
  /\ recon = Recon(New(<<1>>, <<1>>, [c \in {1} |-> CrtcInfo(0, 0, 12, 8)]))
  /\ panic = ""
  /\ last = Last("new", "")

InitStack == WMIdle /\ StackInit /\ LayoutIdle

SpecStack == InitStack /\ [][NextStack]_vars


\* a display with up to ManyCrtcs outputs and a configuration of ManyGroups
\* groups: the output table with outputs that neither are current nor show
\* the group switched to
ManyCrtcs == 3
ManyGroups == 3
ManyCrtcIds == 1..ManyCrtcs

ManyInit ==
  /\ \E K \in (SUBSET ManyCrtcIds) \ {{}} :
       \E enum \in Perms(K), hash \in Perms(K), info \in {[c \in K |-> OutputGeom(c)]} :
         /\ crtc = New(enum, hash, info).crtc
         /\ current_crtc = New(enum, hash, info).current_crtc
  /\ windows = <<>>
  /\ groups = [g \in 1..ManyGroups |-> Group(None, 0)]
  /\ screen = <<>>
  /\ mapped = {}
  /\ recon = Recon(New(<<1>>, <<1>>, <<OutputGeom(1)>>))
  /\ panic = ""
  /\ last = Last("new", "")
  /\ StackIdle
  /\ LayoutIdle

NextMany ==
  \/ MapRequest(FALSE, 1)
  \/ \E c \in ManyCrtcIds : CrtcChange(FALSE, c)
  \/ CrtcResize(FALSE, 1)
  \/ RotateCrtc(FALSE)
  \/ NextGroup(FALSE)
  \/ PrevGroup(FALSE)
  \/ MoveFocusedToNextGroup(FALSE)
  \/ MoveFocusedToPrevGroup(FALSE)

SpecMany == ManyInit /\ [][NextMany]_vars


\* ------------------------------------------ more outputs than groups
\* Lanta::new with NumGroups groups on a display with up to ManyCrtcs
\* outputs: the state it leaves, or the panic it dies with
FewInit ==
  /\ \E K \in (SUBSET ManyCrtcIds) \ {{}} :
       \E enum \in Perms(K), hash \in Perms(K), info \in {[c \in K |-> OutputGeom(c)]} :
         LET S == update_ewmh_desktops(activate_current_groups(New(enum, hash, info)))
         IN /\ groups = S.groups
            /\ crtc = S.crtc
            /\ current_crtc = S.current_crtc
            /\ panic = S.panic
  /\ windows = <<>>
  /\ screen = <<>>
  /\ mapped = {}
  /\ recon = Recon(New(<<1>>, <<1>>, <<OutputGeom(1)>>))
  /\ last = Last("new", "")
  /\ StackIdle
  /\ LayoutIdle

SpecFew == FewInit /\ [][NextMany]_vars


\* ------------------------------------------- three clients on one output
NumClients == 3
Clients == 1..NumClients

\* Event::MapRequest for an ordinary client window (no dock, no special type)
MapClient(w) ==
  \E hint \in BarHints :
    Handler(FALSE, "map_request", ManageTag(Self, w, XProps(FALSE, FALSE, "ok")),
            on_map_request(Self, w, XProps(FALSE, FALSE, "ok"), hint))

NextSwap ==
  \/ \E w \in Clients : MapClient(w)
  \/ \E w \in Clients : UnmapNotify(FALSE, w)
  \/ SwapWithNextInGroup(FALSE)
  \/ SwapWithPreviousInGroup(FALSE)
  \/ FocusNextInGroup(FALSE)
  \/ FocusPreviousInGroup(FALSE)
  \/ NextGroup(FALSE)
  \/ PrevGroup(FALSE)
  \/ MoveFocusedToNextGroup(FALSE)
  \/ MoveFocusedToPrevGroup(FALSE)

SwapInit == WMIdle /\ StackIdle /\ LayoutIdle

SpecSwap == SwapInit /\ [][NextSwap]_vars


\* ------------------------------------------------- the layouts under test
MaxTiles == 8
MaxPadding == 2

\* the viewports of two outputs side by side, in three widths
Areas == {Viewport(x, 0, w, 8) : x \in {0, 16}, w \in {10, 12, 13}}

\* the layouts of src/layout with their padding
LayoutChoices == {[kind |-> k, padding |-> p] : k \in {"stack", "tiled", "three"}, p \in 0..MaxPadding}

\* a stack of up to MaxTiles different windows, any of them focused, as
\* pushes and focus changes leave it
LayoutInit ==
  /\ WMIdle
  /\ \E n \in 0..MaxTiles : \E f \in 0..Max(n - 1, 0) : stack = St([i \in 1..n |-> i], f)
  /\ build \in {"debug", "release"}
  /\ slast = [op |-> "new", arg |-> {}, pre |-> Stack_default]
  /\ area \in Areas
  /\ placed = NotPlaced
  /\ bars = <<>>
  /\ cut = NotCut
  /\ nav = NotNav

\* one call of Layout::layout on the stack and the viewport; where a release
\* build wraps a difference around 2^32 the call is not followed
Arrange(l) ==
  /\ build = "release" => ~Layout_underflows(l, area, stack)
  /\ placed' = [layout |-> l,
                panic |-> Layout_panic(build, l, area, stack),
                out |-> IF Layout_panic(build, l, area, stack) # "" THEN <<>>
                        ELSE Layout_layout(l, area, stack)]
  /\ UNCHANGED <<wmvars, stackvars, area, bars, cut, nav>>

NextLayout == \E l \in LayoutChoices : Arrange(l)

SpecLayout == LayoutInit /\ [][NextLayout]_vars


\* ------------------------------------- viewports and screens under test
MaxBars == 2

\* two monitors, one above the other (the rectangles of the tests of
\* src/viewport.rs and src/screen.rs)
UpperPort == Viewport(0, 0, 2560, 1440)
LowerPort == Viewport(0, 1440, 1920, 1280)

\* the struts of docks on these monitors: the bars of the tests at the bottom
\* and the top of the upper monitor, bars on its left and right side, a bar
\* as wide as the lower monitor at the bottom of either monitor, and one at
\* the top of the lower monitor
Struts ==
  { [NoStrut EXCEPT !.bottom = 1315, !.bottom_end_x = 2559],
    [NoStrut EXCEPT !.top = 35, !.top_end_x = 2559],
    [NoStrut EXCEPT !.left = 40, !.left_end_y = 1400],
    [NoStrut EXCEPT !.right = 50, !.right_end_y = 1439],
    [NoStrut EXCEPT !.bottom = 30, !.bottom_end_x = 1919],
    [NoStrut EXCEPT !.bottom = 1315, !.bottom_end_x = 1919],
    [NoStrut EXCEPT !.top = 1475, !.top_end_x = 1919] }

ScreenInit ==
  /\ WMIdle
  /\ StackInit
  /\ area \in {UpperPort, LowerPort}
  /\ placed = NotPlaced
  /\ bars = <<>>
  /\ cut = NotCut
  /\ nav = NotNav

\* Screen::add; the call recorded before is of the screen as it was
AddBar(s) ==
  /\ Len(bars) < MaxBars
  /\ bars' = Append(bars, [window_id |-> DockId, strut_partial |-> <<s>>])
  /\ cut' = NotCut
  /\ UNCHANGED <<wmvars, stackvars, area, placed, nav>>

\* one call of Viewport::without_strut, of src/viewport.rs or of src/lib.rs,
\* on the viewport under test; where a release build wraps a difference
\* around 2^32 the call is not followed
WithoutStrut(src, s) ==
  \E dim \in {[w |-> 2560, h |-> 2720]} :
    LET out == IF src = "viewport" THEN without_strut(area, dim.w, dim.h, s)
               ELSE lib_without_strut(area, dim.w, dim.h, s)
        under == strut_underflows(out, area, dim.w, dim.h, s)
    IN /\ build = "release" => ~under
       /\ cut' = [op |-> "without_strut", src |-> src, strut |-> s, dim |-> dim,
                  panic |-> IF under THEN OverflowPanic ELSE "",
                  out |-> IF under THEN <<>> ELSE out]
       /\ UNCHANGED <<wmvars, stackvars, area, placed, bars, nav>>

\* one call of Screen::viewports on the screen under test: the copy of
\* src/lib.rs, or the one of src/screen.rs, which folds with the
\* without_strut of src/viewport.rs; a call that wraps is not followed
Viewports(src, ports) ==
  LET width == FoldMax([i \in 1..Len(ports) |-> ports[i].x + ports[i].width])
      height == FoldMax([i \in 1..Len(ports) |-> ports[i].y + ports[i].height])
      step(v, s) == IF src = "screen" THEN without_strut(v, width, height, s)
                    ELSE lib_without_strut(v, width, height, s)
      RECURSIVE fold(_, _)
      fold(v, ss) == IF ss = <<>> THEN v ELSE fold(step(v, Head(ss)), Tail(ss))
      RECURSIVE wraps(_, _)
      wraps(v, ss) ==
        IF ss = <<>> THEN FALSE
        ELSE \/ strut_underflows(step(v, Head(ss)), v, width, height, Head(ss))
             \/ wraps(step(v, Head(ss)), Tail(ss))
      under == \E i \in 1..Len(ports) : wraps(ports[i], DockStruts(bars))
  IN /\ build = "release" => ~under
     /\ cut' = [op |-> "viewports", src |-> src, ports |-> ports,
                panic |-> IF under THEN OverflowPanic ELSE "",
                out |-> IF under THEN <<>>
                        ELSE IF src = "lib" THEN Screen_viewports(bars, ports)
                        ELSE [i \in 1..Len(ports) |-> fold(ports[i], DockStruts(bars))]]
     /\ UNCHANGED <<wmvars, stackvars, area, placed, bars, nav>>

NextScreen ==
  \/ \E s \in Struts : AddBar(s)
  \/ \E src \in {"viewport", "lib"}, s \in Struts : WithoutStrut(src, s)
  \/ \E src \in {"screen", "lib"} :
       \E ports \in {<<UpperPort, LowerPort>>, <<LowerPort, UpperPort>>, <<UpperPort>>} :
         Viewports(src, ports)

SpecScreen == ScreenInit /\ [][NextScreen]_vars


\* ------------------------------------------ navigation policies under test
\* src/navigation.rs, Line::next_window: the windows it may return, none when
\* the set is empty; sort_unstable_by_key leaves the order of candidates of
\* equal key open, so each of them may be first or last
Line_next_window(dir, from, ws) ==
  LET center_x == from.x + (from.width \div 2)
      center_y == from.y + (from.height \div 2)
      keep(w) ==
        /\ w.vp # from
        /\ CASE dir = "Up" ->
                  w.vp.y <= center_y /\ w.vp.x <= center_x /\ w.vp.x + w.vp.width >= center_x
             [] dir = "Down" ->
                  w.vp.y >= center_y /\ w.vp.x <= center_x /\ w.vp.x + w.vp.width >= center_x
             [] dir = "Left" ->
                  w.vp.x <= center_x /\ w.vp.y <= center_y /\ w.vp.y + w.vp.height >= center_y
             [] dir = "Right" ->
                  w.vp.x >= center_x /\ w.vp.y <= center_y /\ w.vp.y + w.vp.height >= center_y
      candidates == {ws[i] : i \in {j \in 1..Len(ws) : keep(ws[j])}}
      key(w) == IF dir \in {"Up", "Down"} THEN w.vp.y ELSE w.vp.x
  IN IF dir \in {"Up", "Left"}
     THEN {w \in candidates : \A v \in candidates : key(v) <= key(w)}
     ELSE {w \in candidates : \A v \in candidates : key(w) <= key(v)}

\* Center::next_window returning the qualifying window farthest along the direction
Center_next_window_farthest(dir, from, ws) ==
  LET center_x == from.x + (from.width \div 2)
      center_y == from.y + (from.height \div 2)
      dx(w) == (w.vp.x + (w.vp.width \div 2)) - center_x
      dy(w) == (w.vp.y + (w.vp.height \div 2)) - center_y
      delta_x(w) == CASE dir = "Right" -> dx(w) [] dir = "Left" -> -dx(w)
                      [] dir = "Down" -> dy(w) [] dir = "Up" -> -dy(w)
      delta_y(w) == CASE dir = "Right" -> dy(w) [] dir = "Left" -> dy(w)
                      [] dir = "Down" -> dx(w) [] dir = "Up" -> -dx(w)
      some == {i \in 1..Len(ws) :
                 /\ ws[i].vp # from
                 /\ delta_x(ws[i]) > 0
                 /\ delta_y(ws[i]) < delta_x(ws[i])
                 /\ delta_y(ws[i]) >= -delta_x(ws[i])}
      least == {i \in some : \A j \in some : delta_x(ws[i]) >= delta_x(ws[j])}
  IN IF some = {} THEN <<>> ELSE << ws[CHOOSE i \in least : \A j \in least : i <= j] >>

\* src/navigation.rs, Center::next_window: the Option it returns, <<>> for
\* None and <<w>> for Some(w); min_by returns the first of several least elements
Center_next_window(dir, from, ws) ==
  LET center_x == from.x + (from.width \div 2)
      center_y == from.y + (from.height \div 2)
      dx(w) == (w.vp.x + (w.vp.width \div 2)) - center_x
      dy(w) == (w.vp.y + (w.vp.height \div 2)) - center_y
      \* all movements are normalised to one to the right
      delta_x(w) == CASE dir = "Right" -> dx(w) [] dir = "Left" -> -dx(w)
                      [] dir = "Down" -> dy(w) [] dir = "Up" -> -dy(w)
      delta_y(w) == CASE dir = "Right" -> dy(w) [] dir = "Left" -> dy(w)
                      [] dir = "Down" -> dx(w) [] dir = "Up" -> -dx(w)
      abs(n) == IF n < 0 THEN -n ELSE n
      some == {i \in 1..Len(ws) :
                 /\ ws[i].vp # from
                 /\ delta_x(ws[i]) > 0
                 /\ delta_y(ws[i]) < delta_x(ws[i])
                 /\ delta_y(ws[i]) >= -delta_x(ws[i])}
      dist(i) == abs(delta_x(ws[i])) + abs(delta_y(ws[i]))
      less(i, j) == \/ dist(i) < dist(j)
                    \/ dist(i) = dist(j) /\ delta_x(ws[i]) < delta_x(ws[j])
      least == {i \in some : \A j \in some : ~less(j, i)}
  IN IF some = {} THEN <<>> ELSE << ws[CHOOSE i \in least : \A j \in least : i <= j] >>

MaxRow == 3      \* windows of a row
GridSide == 3    \* cells along each side of a grid of windows
MaxOnGrid == 3   \* windows put on the grid

\* the window lists asked about: rows of equal-size windows side by side, the
\* first of them the row of the test of src/navigation.rs, and windows on some
\* cells of a grid of equal squares, in the order of the cells or against it
NavWindows ==
  LET Row(n, x, w, h, gap) ==
        [i \in 1..n |-> MappedWindow(i - 1, Viewport(x + ((i - 1) * (w + gap)), 35, w, h))]
      Cell(c) == Viewport(2 * (c % GridSide), 2 * (c \div GridSide), 2, 2)
      RECURSIVE Asc(_)
      Asc(C) == IF C = {} THEN <<>>
                ELSE LET c == CHOOSE a \in C : \A b \in C : a <= b
                     IN <<c>> \o Asc(C \ {c})
      OnGrid(C, up) ==
        LET cs == Asc(C)
        IN [i \in 1..Len(cs) |->
              LET c == IF up THEN cs[i] ELSE cs[Len(cs) + 1 - i]
              IN MappedWindow(c, Cell(c))]
  IN {Row(n, 0, 851, 1405, 3) : n \in 1..MaxRow}
       \cup {Row(n, 5, 4, 6, 0) : n \in 1..MaxRow}
       \cup {Row(n, 0, 1, 1, 0) : n \in 1..MaxRow}
       \cup {Row(n, 2, 3, 0, 1) : n \in 1..MaxRow}
       \cup {OnGrid(C, up) : C \in {D \in SUBSET (0..((GridSide * GridSide) - 1)) :
                                      Cardinality(D) \in 1..MaxOnGrid},
                             up \in BOOLEAN}

NavInit ==
  /\ WMIdle
  /\ StackIdle
  /\ area = Viewport(0, 0, 0, 0)
  /\ placed = NotPlaced
  /\ bars = <<>>
  /\ cut = NotCut
  /\ nav \in {[NotNav EXCEPT !.windows = ws] : ws \in NavWindows}

\* one call of next_window of a policy, from the window at index f of the list
NextWindow(policy, dir, f) ==
  LET from == nav.windows[f].vp
      line == Line_next_window(dir, from, nav.windows)
      outs == IF policy = "Center" THEN {Center_next_window(dir, from, nav.windows)}
              ELSE IF line = {} THEN {<<>>}
              ELSE {<<w>> : w \in line}
  IN /\ \E out \in outs :
          nav' = [nav EXCEPT !.policy = policy, !.dir = dir, !.focus = f, !.out = out]
     /\ UNCHANGED <<wmvars, stackvars, area, placed, bars, cut>>

NextNav ==
  \E policy \in {"Line", "Center"}, dir \in {"Up", "Down", "Left", "Right"} :
    \E f \in 1..Len(nav.windows) : NextWindow(policy, dir, f)

SpecNav == NavInit /\ [][NextNav]_vars


\* ------------------------------------------------------------- properties
\* C1: no two outputs of the output assignment table are assigned the same
\* GroupId, after startup and any sequence of group switches, moves of the
\* focused window, rotate_crtc and output add, update and remove events.
OutputGroupsInjective ==
  \A i, j \in 1..Len(crtc) : crtc[i].gid = crtc[j].gid => i = j

\* C1: a switch to the next group that was shown on the other output
OutputGroupsSwapped ==
  /\ last.op = "next_group"
  /\ panic = ""
  /\ Len(crtc) = 2
  /\ group_idx(Self) = 1

\* C2: for every group, the focused window is none if and only if no Window
\* record references the group, and otherwise it is the handle of a Window
\* record of that group.
GroupFocusIsMember ==
  panic = "" =>
    \A g \in 0..(Len(groups) - 1) :
      /\ groups[g + 1].focused_window = None <=> windows_in_grp(windows, g) = <<>>
      /\ groups[g + 1].focused_window # None =>
           groups[g + 1].focused_window \in Range(windows_in_grp(windows, g))

\* C3: whenever the output assignment table is non-empty, the current output
\* is one of its keys, so that the current group index is defined.
CurrentOutputIsKey ==
  crtc # <<>> => /\ \E i \in 1..Len(crtc) : crtc[i].crtc = current_crtc
                 /\ group_idx(Self) # -1

\* C3: the current output was removed while another one remained
CurrentOutputRemoved ==
  /\ last.op = "crtc_change"
  /\ last.tag = "remove_current"
  /\ crtc # <<>>

\* C8: managing a normal window appends a Window record for it to the group
\* shown on the current output and makes it that group's focused window,
\* whether or not the group already had a focused window.
ManageFocusesNewWindow ==
  [][\A w \in WindowIds :
       (/\ last'.op \in {"manage_window", "map_request"}
        /\ last'.tag = "normal"
        /\ panic' = ""
        /\ ~is_window_managed(Self, w)
        /\ \E i \in 1..Len(windows') : windows'[i].id = w)
       => /\ windows' = Append(windows, Window(w, group_idx(Self)))
          /\ groups'[group_idx(Self) + 1].focused_window = w]_vars

\* C9: managing a window handle that is already managed changes nothing: the
\* window list, every window's group, every group's focus, the dock registry
\* and the output assignment table stay as they were.
ManageManagedIsNoOp ==
  [][last'.op = "manage_window" /\ last'.tag = "managed"
       => UNCHANGED <<windows, groups, screen, crtc, current_crtc, panic>>]_vars

\* C9: manage_window was called on a handle of the window list
ManagedWindowManagedAgain ==
  /\ last.op = "manage_window"
  /\ last.tag = "managed"
  /\ windows # <<>>

\* C10: when a window that is its group's focused window is removed, the
\* group's focus becomes the nearest remaining window of the group (its
\* predecessor, else its successor), none only if the group has no window
\* left, and never stays the removed handle.
RemovalRefocusesNearest ==
  [][\A i \in 1..Len(windows) :
       LET w == windows[i].id
           g == windows[i].group
           in_grp == windows_in_grp(windows, g)
           p == Position(in_grp, {v \in Range(in_grp) : v = w})
           nearest == IF p >= 1 THEN in_grp[p]
                      ELSE IF p + 1 < Len(in_grp) THEN in_grp[p + 2]
                      ELSE None
       IN (/\ last'.op \in {"unmap_notify", "destroy_notify"}
           /\ last'.tag = "focused"
           /\ panic' = ""
           /\ groups_has(Self, g)
           /\ groups[g + 1].focused_window = w
           /\ \A k \in 1..Len(windows') : windows'[k].id # w)
          => /\ groups'[g + 1].focused_window = nearest
             /\ groups'[g + 1].focused_window # w]_vars


\* C5: after any sequence of push, remove, focus_next and focus_previous,
\* focused() is None if and only if the stack is empty: the focused index is
\* a valid index whenever the stack holds an element.
FocusedNoneIffEmpty ==
  stack.panic = "" =>
    /\ focused(stack) = None <=> stack.windows = <<>>
    /\ stack.windows # <<>> => stack.focused < Len(stack.windows)

\* C5: the focused, last element of a stack of several was removed
FocusedLastRemoved ==
  /\ slast.op = "remove"
  /\ stack.panic = ""
  /\ Len(slast.pre.windows) >= 2
  /\ slast.pre.focused = Len(slast.pre.windows) - 1
  /\ Len(stack.windows) = Len(slast.pre.windows) - 1

\* C6: push, remove, focus, focus_next and focus_previous keep the relative
\* order of the elements that stay: push appends at the end, remove takes one
\* element out and leaves the others in place, and the focus operations do
\* not touch the order.
SurvivorsKeepOrder ==
  stack.panic = "" =>
    /\ slast.op = "push" =>
         /\ Len(stack.windows) = Len(slast.pre.windows) + 1
         /\ SubSeq(stack.windows, 1, Len(slast.pre.windows)) = slast.pre.windows
         /\ stack.windows[Len(stack.windows)] \in slast.arg
    /\ slast.op = "remove" =>
         \E i \in 1..Len(slast.pre.windows) :
           /\ slast.pre.windows[i] \in slast.arg
           /\ stack.windows = SubSeq(slast.pre.windows, 1, i - 1)
                                \o SubSeq(slast.pre.windows, i + 1, Len(slast.pre.windows))
    /\ slast.op \in {"focus", "focus_next", "focus_previous"} =>
         stack.windows = slast.pre.windows

\* C6: the middle one of three different elements was removed
MiddleRemoved ==
  /\ slast.op = "remove"
  /\ stack.panic = ""
  /\ Len(slast.pre.windows) = 3
  /\ slast.pre.windows[2] \in slast.arg
  /\ slast.pre.windows[1] \notin slast.arg
  /\ stack.windows = <<slast.pre.windows[1], slast.pre.windows[3]>>
  /\ slast.pre.windows[1] # slast.pre.windows[3]

\* C7: on a stack whose focused element is not the last, shuffle_next and
\* then shuffle_previous give back the order and the focused index, and
\* likewise shuffle_previous and then shuffle_next when the focused element is
\* not the first; the focused element stays the same element throughout.
ShufflesAreInverse ==
  /\ (/\ slast.op = "shuffle_next"
      /\ slast.pre.focused + 1 < Len(slast.pre.windows))
     => /\ stack.panic = ""
        /\ focused(stack) = focused(slast.pre)
        /\ shuffle_previous(stack) = slast.pre
  /\ (/\ slast.op = "shuffle_previous"
      /\ slast.pre.focused >= 1
      /\ slast.pre.focused < Len(slast.pre.windows))
     => /\ stack.panic = ""
        /\ focused(stack) = focused(slast.pre)
        /\ shuffle_next(build, stack) = slast.pre

\* C7: shuffle_next moved the focused element past a different one
ShuffledNext ==
  /\ slast.op = "shuffle_next"
  /\ stack.panic = ""
  /\ stack.windows # slast.pre.windows
  /\ Len(stack.windows) = 3


FocusGroupSwaps ==
  [][LET old_idx == group_idx(Self)
         new_idx == IF last'.op \in {"next_group", "move_focused_to_next_group"}
                    THEN old_idx + 1 ELSE old_idx - 1
     IN (/\ last'.op \in {"next_group", "prev_group",
                          "move_focused_to_next_group", "move_focused_to_prev_group"}
         /\ panic' = ""
         /\ old_idx # -1
         /\ new_idx >= 0
         /\ new_idx < Len(groups)
         /\ \E j \in 1..Len(crtc) : crtc[j].gid = new_idx)
        => /\ Len(crtc') = Len(crtc)
           /\ current_crtc' = current_crtc
           /\ \A i \in 1..Len(crtc) :
                /\ crtc'[i].crtc = crtc[i].crtc
                /\ crtc'[i].info = crtc[i].info
                /\ crtc'[i].gid = IF crtc[i].crtc = current_crtc THEN new_idx
                                  ELSE IF crtc[i].gid = new_idx THEN old_idx
                                  ELSE crtc[i].gid]_vars

\* C11: with three outputs, the current output was switched to the next
\* group, which another output showed
ThreeOutputsSwapped ==
  /\ last.op = "next_group"
  /\ panic = ""
  /\ Len(crtc) = 3
  /\ group_idx(Self) = 1


\* C12: next_group and prev_group change the group index of the current
\* output by exactly +1 and -1 when that is a valid group index, and change
\* nothing (output assignment table, current output, groups, windows) when the
\* current output shows the last, respectively the first group: no wraparound.
ShiftGroupByOne ==
  [][LET old_idx == group_idx(Self)
         new_idx == IF last'.op = "next_group" THEN old_idx + 1 ELSE old_idx - 1
     IN (/\ last'.op \in {"next_group", "prev_group"}
         /\ panic' = ""
         /\ old_idx # -1)
        => IF new_idx >= 0 /\ new_idx < Len(groups)
           THEN /\ current_crtc' = current_crtc
                /\ \E i \in 1..Len(crtc') :
                     crtc'[i].crtc = current_crtc' /\ crtc'[i].gid = new_idx
           ELSE UNCHANGED <<crtc, current_crtc, groups, windows, screen>>]_vars

\* C12: the only output went from the last group to the one before it
ShiftedToPreviousGroup ==
  /\ last.op = "prev_group"
  /\ panic = ""
  /\ Len(crtc) = 1
  /\ group_idx(Self) = Len(groups) - 2


\* C13: move_focused_to_next_group and move_focused_to_prev_group, when the
\* target group index exists and the current group has a focused window, set
\* that window's GroupId to the target, so that it belongs to the target group
\* and no longer to the source group, change no other window's group, and
\* make the current output show the target group by the swap rule of group
\* navigation.
MoveFocusedRetags ==
  [][LET old_idx == group_idx(Self)
         new_idx == IF last'.op = "move_focused_to_next_group"
                    THEN old_idx + 1 ELSE old_idx - 1
         id == focused_window(Self)
     IN (/\ last'.op \in {"move_focused_to_next_group", "move_focused_to_prev_group"}
         /\ panic' = ""
         /\ old_idx # -1
         /\ new_idx >= 0
         /\ new_idx < Len(groups)
         /\ id # None)
        => /\ \E i \in 1..Len(windows') : windows'[i] = Window(id, new_idx)
           /\ Len(windows') = Len(windows)
           /\ \A i \in 1..Len(windows) :
                /\ windows'[i].id = windows[i].id
                /\ windows[i].id = id => windows'[i].group = new_idx
                /\ windows[i].id # id => windows'[i].group = windows[i].group
           /\ Len(crtc') = Len(crtc)
           /\ current_crtc' = current_crtc
           /\ \A i \in 1..Len(crtc) :
                /\ crtc'[i].crtc = crtc[i].crtc
                /\ crtc'[i].info = crtc[i].info
                /\ crtc'[i].gid = IF crtc[i].crtc = current_crtc THEN new_idx
                                  ELSE IF crtc[i].gid = new_idx THEN old_idx
                                  ELSE crtc[i].gid]_vars


\* C14: move_focused_to_next_group and move_focused_to_prev_group change
\* nothing when the current group has no focused window: the output
\* assignment table, the current output, the window list and every group's
\* focus stay as they were.
MoveFocusedWithoutFocusIsNoOp ==
  [][(/\ last'.op \in {"move_focused_to_next_group", "move_focused_to_prev_group"}
      /\ focused_window(Self) = None)
       => UNCHANGED <<crtc, current_crtc, windows, groups>>]_vars


\* C15: rotate_crtc changes only which output is current, never the output
\* assignment table, a window's group or a group's focus; with k outputs, k
\* successive invocations all terminate, make every output current exactly
\* once and end on the output they started from (one output: no change).
RotateCrtcCycles ==
  (panic = "" /\ crtc # <<>>) =>
    LET k == Len(crtc)
        RECURSIVE after(_)
        after(n) == IF n = 0 THEN Self ELSE rotate_crtc(after(n - 1))
    IN /\ \A n \in 1..k :
            /\ ~Panicked(after(n))
            /\ after(n).crtc = crtc
            /\ after(n).windows = windows
            /\ after(n).groups = groups
            /\ after(n).screen = screen
       /\ {after(n).current_crtc : n \in 1..k} = {crtc[i].crtc : i \in 1..k}
       /\ after(k).current_crtc = current_crtc

\* C15: rotate_crtc ran on a display with three outputs and a window
RotatedAmongThree ==
  /\ last.op = "rotate_crtc"
  /\ panic = ""
  /\ Len(crtc) = 3
  /\ windows # <<>>


\* C16: a report with non-zero width and height for an output that is not in
\* the table adds it with the lowest GroupId assigned to no other output; a
\* report for an output of the table replaces only that output's geometry
\* and leaves its GroupId, every other entry and the current output as they
\* were.
SizedReportAddsOrUpdates ==
  panic = "" =>
    \A c \in ManyCrtcIds : \A info \in {OutputGeom(c), Resized(c)} :
      \A order \in Orders(Self, c, info) :
        LET T == on_crtc_change(Self, [crtc |-> c, info |-> info], order)
            used == {crtc[i].gid : i \in 1..Len(crtc)}
        IN IF \E i \in 1..Len(crtc) : crtc[i].crtc = c
           THEN /\ T.current_crtc = current_crtc
                /\ Len(T.crtc) = Len(crtc)
                /\ \A i \in 1..Len(crtc) :
                     T.crtc[i] = IF crtc[i].crtc = c
                                 THEN [crtc |-> c, info |-> info, gid |-> crtc[i].gid]
                                 ELSE crtc[i]
           ELSE /\ Len(T.crtc) = Len(crtc) + 1
                /\ \E gid \in 0..Len(crtc) :
                     /\ gid \notin used
                     /\ \A h \in 0..(gid - 1) : h \in used
                     /\ Range(T.crtc) = Range(crtc) \cup {[crtc |-> c, info |-> info, gid |-> gid]}

\* C16: an output of the table reported a new mode while group 0 was shown
\* on no output and group 2 on one
OutputResized ==
  /\ last.op = "crtc_change"
  /\ last.tag = "update"
  /\ panic = ""
  /\ \E i \in 1..Len(crtc) : crtc[i].crtc = 1 /\ crtc[i].info = Resized(1)
  /\ \E i \in 1..Len(crtc) : crtc[i].gid = 2
  /\ \A i \in 1..Len(crtc) : crtc[i].gid # 0


\* C17: a report with zero width or zero height removes the output from the
\* table and leaves the entries of the other outputs, their GroupIds
\* included, as they were; if the removed output was current and outputs
\* remain, the current output becomes one of them; if it was not current,
\* the current output stays.
ZeroReportRemoves ==
  panic = "" =>
    \A c \in ManyCrtcIds :
      \A info \in {Disabled(c), [OutputGeom(c) EXCEPT !.width = 0],
                   [OutputGeom(c) EXCEPT !.height = 0]} :
        \A order \in Perms({crtc[i].crtc : i \in 1..Len(crtc)} \ {c}) :
          LET T == on_crtc_change(Self, [crtc |-> c, info |-> info], order)
              rest == {e \in Range(crtc) : e.crtc # c}
          IN /\ Range(T.crtc) = rest
             /\ Len(T.crtc) = Cardinality(rest)
             /\ IF current_crtc # c THEN T.current_crtc = current_crtc /\ ~Panicked(T)
                ELSE rest # {} => /\ ~Panicked(T)
                                  /\ \E e \in rest : e.crtc = T.current_crtc

\* C17: the current one of three outputs was removed
CurrentOfThreeRemoved ==
  /\ last.op = "crtc_change"
  /\ last.tag = "remove_current"
  /\ panic = ""
  /\ Len(crtc) = 2


\* C18: the three-column layout of n >= 3 windows places them, in input
\* order, in exactly three consecutive columns of sizes (ceil(n/3),
\* ceil(n/3), floor(n/3)) when n mod 3 = 2 and (floor(n/3),
\* floor(n/3) + (n mod 3), floor(n/3)) otherwise.
ThreeColumnSizes ==
  (placed.layout.kind = "three" /\ placed.panic = "" /\ Len(stack.windows) >= 3) =>
    LET n == Len(stack.windows)
        q == n \div 3
        r == n % 3
        sizes == IF r = 2 THEN <<q + 1, q + 1, q>> ELSE <<q, q + r, q>>
        col(i) == IF i <= sizes[1] THEN 0 ELSE IF i <= sizes[1] + sizes[2] THEN 1 ELSE 2
        tile_width == (area.width - (placed.layout.padding * 2)) \div 3
    IN /\ Len(placed.out) = n
       /\ \A i \in 1..n :
            /\ placed.out[i].id = stack.windows[i]
            /\ placed.out[i].vp.x = area.x + (col(i) * (tile_width + placed.layout.padding))


\* C19: the equal-column layout of n >= 1 windows gives exactly n placements,
\* one per window in input order from left to right, all of the same height,
\* whose widths and the padding between and around the columns add up to the
\* width of the viewport, whatever the width, the padding and n.
TiledFillsWidth ==
  (placed.layout.kind = "tiled" /\ Len(stack.windows) >= 1) =>
    LET n == Len(stack.windows)
        RECURSIVE widths(_)
        widths(i) == IF i = 0 THEN 0 ELSE placed.out[i].vp.width + widths(i - 1)
    IN /\ placed.panic = ""
       /\ Len(placed.out) = n
       /\ \A i \in 1..n : placed.out[i].id = stack.windows[i]
       /\ \A i, j \in 1..n : i < j => placed.out[i].vp.x < placed.out[j].vp.x
       /\ \A i \in 1..n : placed.out[i].vp.height = placed.out[1].vp.height
       /\ widths(n) + (placed.layout.padding * (n + 1)) = area.width


\* C20: the single-window (stack) layout gives exactly one placement whenever
\* the stack is not empty, however many windows it holds: the focused window
\* on the viewport inset by the padding on all four sides, and no unfocused
\* window; on an empty stack it gives no placement.
StackLayoutPlacesFocused ==
  (placed.layout.kind = "stack" /\ placed.panic = "") =>
    IF stack.windows = <<>> THEN placed.out = <<>>
    ELSE /\ Len(placed.out) = 1
         /\ placed.out[1].id = stack.windows[stack.focused + 1]
         /\ placed.out[1].vp = [x |-> area.x + placed.layout.padding,
                                y |-> area.y + placed.layout.padding,
                                width |-> area.width - (2 * placed.layout.padding),
                                height |-> area.height - (2 * placed.layout.padding)]
         /\ \A i \in 1..Len(stack.windows) :
              i # stack.focused + 1 => stack.windows[i] # placed.out[1].id

\* C20: the stack layout with padding 2 ran on three windows, the middle one
\* focused
StackLayoutOfThree ==
  /\ placed.layout = [kind |-> "stack", padding |-> 2]
  /\ placed.panic = ""
  /\ Len(stack.windows) = 3
  /\ stack.focused = 1
  /\ placed.out # <<>>


\* C21: without_strut with a bottom margin and no other, whose horizontal
\* range lies within the viewport's horizontal span, moves the bottom edge to
\* min(old bottom, screen_height - strut.bottom) and leaves x, y and width as
\* they were; the 2560x1440 viewport at the origin, with screen height 2720
\* and bottom margin 1315, gets height 1405.
BottomStrutShrinks ==
  (/\ cut.op = "without_strut"
   /\ cut.panic = ""
   /\ cut.strut.bottom > 0
   /\ cut.strut.left = 0 /\ cut.strut.right = 0 /\ cut.strut.top = 0
   /\ cut.strut.bottom_start_x >= area.x
   /\ cut.strut.bottom_end_x <= area.x + area.width)
  => /\ cut.out.x = area.x
     /\ cut.out.y = area.y
     /\ cut.out.width = area.width
     /\ cut.out.y + cut.out.height = Min(area.y + area.height, cut.dim.h - cut.strut.bottom)
     /\ (area = UpperPort /\ cut.strut.bottom = 1315) => cut.out.height = 1405

\* C21: the bottom bar of the test was taken off the upper monitor
BottomBarCut ==
  /\ cut.op = "without_strut"
  /\ cut.src = "viewport"
  /\ area = UpperPort
  /\ cut.strut = [NoStrut EXCEPT !.bottom = 1315, !.bottom_end_x = 2559]
  /\ cut.out = Viewport(0, 0, 2560, 1405)


\* C22: without_strut returns the viewport as it was when, for every margin
\* of the strut, the strut's range along the perpendicular axis does not lie
\* on the viewport's span, as for the bottom strut spanning x 0..2559 and the
\* 1920 wide viewport at y = 1440: no margin is applied to a viewport the
\* dock does not sit on.
StrutOffSpanLeavesViewport ==
  (/\ cut.op = "without_strut"
   /\ cut.strut.left > 0 =>
        ~(cut.strut.left_start_y >= area.y /\ cut.strut.left_end_y <= area.y + area.height)
   /\ cut.strut.right > 0 =>
        ~(cut.strut.right_start_y >= area.y /\ cut.strut.right_end_y <= area.y + area.height)
   /\ cut.strut.top > 0 =>
        ~(cut.strut.top_start_x >= area.x /\ cut.strut.top_end_x <= area.x + area.width)
   /\ cut.strut.bottom > 0 =>
        ~(cut.strut.bottom_start_x >= area.x /\ cut.strut.bottom_end_x <= area.x + area.width))
  => /\ cut.panic = ""
     /\ cut.out = area

\* C22: the bottom bar of the upper monitor was taken off the lower, narrower
\* monitor
BottomBarOffLowerMonitor ==
  /\ cut.op = "without_strut"
  /\ cut.src = "viewport"
  /\ area = LowerPort
  /\ cut.strut = [NoStrut EXCEPT !.bottom = 1315, !.bottom_end_x = 2559]
  /\ cut.out = LowerPort


\* C23: without_strut with a top margin and no other, whose horizontal range
\* lies within the viewport's horizontal span, moves the top edge down to
\* max(y, strut.top) and reduces the height by the same amount, leaving x,
\* width and the bottom edge as they were; a top margin of 35 on the
\* 2560x1440 viewport at the origin yields y = 35 and height 1405; the top
\* edge is never moved outward.
TopStrutShrinks ==
  (/\ cut.op = "without_strut"
   /\ cut.panic = ""
   /\ cut.strut.top > 0
   /\ cut.strut.left = 0 /\ cut.strut.right = 0 /\ cut.strut.bottom = 0
   /\ cut.strut.top_start_x >= area.x
   /\ cut.strut.top_end_x <= area.x + area.width)
  => /\ cut.out.x = area.x
     /\ cut.out.width = area.width
     /\ cut.out.y = Max(area.y, cut.strut.top)
     /\ cut.out.y >= area.y
     /\ cut.out.y + cut.out.height = area.y + area.height
     /\ (area = UpperPort /\ cut.strut.top = 35) => cut.out = Viewport(0, 35, 2560, 1405)


\* C24: Screen.viewports returns one rectangle per candidate rectangle, in
\* the order of the input, each the candidate folded through the struts of
\* all docks in registration order, with the maximum of x + width and of
\* y + height over all candidates as screen dimensions; with two monitors one
\* above the other, a bottom dock of the upper monitor shrinks only the upper
\* monitor's rectangle.
ViewportsFoldsDocks ==
  (cut.op = "viewports" /\ cut.panic = "") =>
    LET ports == cut.ports
        w == CHOOSE m \in {ports[i].x + ports[i].width : i \in 1..Len(ports)} :
               \A i \in 1..Len(ports) : ports[i].x + ports[i].width <= m
        h == CHOOSE m \in {ports[i].y + ports[i].height : i \in 1..Len(ports)} :
               \A i \in 1..Len(ports) : ports[i].y + ports[i].height <= m
        RECURSIVE after(_, _)
        after(i, k) ==
          IF k = 0 THEN ports[i]
          ELSE IF cut.src = "screen"
          THEN without_strut(after(i, k - 1), w, h, bars[k].strut_partial[1])
          ELSE lib_without_strut(after(i, k - 1), w, h, bars[k].strut_partial[1])
    IN /\ Len(cut.out) = Len(ports)
       /\ \A i \in 1..Len(ports) : cut.out[i] = after(i, Len(bars))
       /\ (/\ ports = <<UpperPort, LowerPort>>
           /\ bars = << [window_id |-> DockId,
                         strut_partial |-> << [NoStrut EXCEPT !.bottom = 1315,
                                                              !.bottom_end_x = 2559] >>] >>)
          => cut.out = <<Viewport(0, 0, 2560, 1405), LowerPort>>

\* C24: the viewports of the lower and the upper monitor, in this order, on a
\* screen with a left bar registered before the bottom bar of the upper
\* monitor
ViewportsOfTwoBars ==
  /\ cut.op = "viewports"
  /\ cut.src = "lib"
  /\ cut.panic = ""
  /\ cut.ports = <<LowerPort, UpperPort>>
  /\ Len(bars) = 2
  /\ bars[1].strut_partial[1].left = 40
  /\ bars[2].strut_partial[1].bottom = 1315
  /\ cut.out[2] = Viewport(40, 0, 2520, 1440)


\* C25: for a row of equal-size windows placed side by side, both the Line and
\* the Center policy return, for Right and for Left from any window of the
\* row, the immediate neighbour on that side, and none when there is no
\* window on that side.
RowNeighbours ==
  LET ws == nav.windows
      row == \A i, j \in 1..Len(ws) :
               /\ ws[i].vp.y = ws[j].vp.y
               /\ ws[i].vp.width = ws[j].vp.width
               /\ ws[i].vp.height = ws[j].vp.height
               /\ ws[i].vp.width > 0
               /\ i # j => \/ ws[i].vp.x + ws[i].vp.width <= ws[j].vp.x
                           \/ ws[j].vp.x + ws[j].vp.width <= ws[i].vp.x
      me == ws[nav.focus].vp
      beyond == {i \in 1..Len(ws) : IF nav.dir = "Right" THEN ws[i].vp.x > me.x
                                    ELSE ws[i].vp.x < me.x}
  IN nav.policy \in {"Line", "Center"} /\ nav.dir \in {"Left", "Right"} /\ row
       => IF beyond = {} THEN nav.out = <<>>
          ELSE \E i \in beyond :
                 /\ nav.out = <<ws[i]>>
                 /\ \A j \in beyond :
                      IF nav.dir = "Right" THEN ws[i].vp.x <= ws[j].vp.x
                      ELSE ws[j].vp.x <= ws[i].vp.x

\* C25: Left from the rightmost of the three windows of the test, by Center
LeftFromRightmostOfThree ==
  /\ nav.policy = "Center"
  /\ nav.dir = "Left"
  /\ Len(nav.windows) = 3
  /\ nav.windows[3].vp = Viewport(1708, 35, 851, 1405)
  /\ nav.focus = 3
  /\ nav.out = <<nav.windows[2]>>

\* C26: the Center policy returns a window other than the one moved from
\* whose normalised primary delta is positive and whose normalised secondary
\* delta is at most the primary one in magnitude, both edges of the cone
\* taken in, of least Manhattan distance between centres and then of least
\* primary delta, and none when no window qualifies.
CenterPicksInClosedCone ==
  LET ws == nav.windows
      dir == nav.dir
      me == ws[nav.focus].vp
      dx(w) == (w.vp.x + (w.vp.width \div 2)) - (me.x + (me.width \div 2))
      dy(w) == (w.vp.y + (w.vp.height \div 2)) - (me.y + (me.height \div 2))
      primary(w) == CASE dir = "Right" -> dx(w) [] dir = "Left" -> -dx(w)
                      [] dir = "Down" -> dy(w) [] dir = "Up" -> -dy(w)
      secondary(w) == CASE dir = "Right" -> dy(w) [] dir = "Left" -> dy(w)
                        [] dir = "Down" -> dx(w) [] dir = "Up" -> -dx(w)
      abs(n) == IF n < 0 THEN -n ELSE n
      qualifies == {i \in 1..Len(ws) :
                      /\ ws[i].vp # me
                      /\ primary(ws[i]) > 0
                      /\ abs(secondary(ws[i])) <= primary(ws[i])}
      dist(i) == abs(primary(ws[i])) + abs(secondary(ws[i]))
      better(i, j) == \/ dist(i) < dist(j)
                      \/ dist(i) = dist(j) /\ primary(ws[i]) < primary(ws[j])
  IN nav.policy = "Center"
       => IF qualifies = {} THEN nav.out = <<>>
          ELSE \E i \in qualifies :
                 /\ nav.out = <<ws[i]>>
                 /\ \A j \in qualifies : ~better(j, i)


\* C27: remove_focused changes nothing on an empty stack; otherwise it takes
\* out the focused element, keeps the order of the others and leaves the
\* focused index where it was, clamped to the last valid index; on a stack
\* of one element it leaves an empty stack whose focused() is None, and it
\* does not fail.
RemoveFocusedClamps ==
  slast.op = "remove_focused" =>
    LET pre == slast.pre
    IN IF pre.windows = <<>> THEN stack = pre
       ELSE /\ stack.panic = ""
            /\ stack.windows = RemoveAt(pre.windows, pre.focused)
            /\ focused(pre) \in Range(pre.windows)
            /\ IF stack.windows = <<>> THEN focused(stack) = None
               ELSE stack.focused = Min(pre.focused, Len(stack.windows) - 1)

RemoveFocusesFollower ==
  slast.op = "remove" /\ stack.panic = "" =>
    LET pre == slast.pre
        position == CHOOSE i \in 0..(Len(pre.windows) - 1) :
                      /\ pre.windows[i + 1] \in slast.arg
                      /\ \A j \in 0..(i - 1) : pre.windows[j + 1] \notin slast.arg
    IN position = pre.focused /\ position + 1 < Len(pre.windows)
         => /\ stack.focused < Len(stack.windows)
            /\ stack.focused = position
            /\ focused(stack) = pre.windows[position + 2]


\* C30: managing a window whose types hold Notification, Tooltip or Utility,
\* or that declares override-redirect, or whose attributes cannot be read,
\* adds it to no group: the window list, every group's focus and the output
\* assignment table are as they were before the call.
ManageIgnoresSpecialWindows ==
  [][last'.op \in {"manage_window", "map_request"} /\ last'.tag = "ignored"
       => UNCHANGED <<windows, groups, crtc, current_crtc>>]_vars

\* C30: manage_window, called by on_map_request, returned early on such a
\* window while another window was managed and focused
SpecialWindowIgnored ==
  /\ last.op = "map_request"
  /\ last.tag = "ignored"
  /\ panic = ""
  /\ windows # <<>>
  /\ \A i \in 1..Len(windows) : windows[i].id # IgnoredId
  /\ \E g \in 1..Len(groups) : groups[g].focused_window # None


\* C31: no window handle appears twice in the window list, whatever sequence
\* of manage, repeated map requests, swaps, moves to a group and unmanage
\* calls ran, so that each managed window has one record and one group; and
\* no record of the window list is for a dock window.
OneRecordPerWindow ==
  /\ \A i, j \in 1..Len(windows) : windows[i].id = windows[j].id => i = j
  /\ \A i \in 1..Len(windows) : windows[i].id \in WindowIds
  /\ \A i \in 1..Len(windows), d \in 1..Len(screen) : windows[i].id # screen[d].window_id

\* C31: two windows of one group were swapped while a dock was registered
SwappedBesideDock ==
  /\ last.op = "swap_with_next_in_group"
  /\ panic = ""
  /\ Len(windows) = 2
  /\ windows[1].id > windows[2].id
  /\ windows[1].group = windows[2].group
  /\ screen # <<>>


\* C32: swap_with_next_in_group and swap_with_previous_in_group exchange the
\* focused window of the current group with its immediate successor or
\* predecessor among the windows of that group: those two handles trade
\* places, every other record and every group's set of windows stay, and
\* without such a neighbour or without a focused window nothing changes.
SwapExchangesNeighbours ==
  [][LET gid == group_idx(Self)
         wid == focused_window(Self)
         ws == windows_in_grp(windows, gid)
         pos == Position(ws, {w \in Range(ws) : w = wid})
         nextpos == IF last'.op = "swap_with_next_in_group" THEN pos + 1 ELSE pos - 1
         there == wid # None /\ pos # -1 /\ nextpos >= 0 /\ nextpos < Len(ws)
     IN (/\ last'.op \in {"swap_with_next_in_group", "swap_with_previous_in_group"}
         /\ panic' = "")
        => IF there
           THEN /\ windows_in_grp(windows', gid) = SwapAt(ws, pos, nextpos)
                /\ Len(windows') = Len(windows)
                /\ \A i \in 1..Len(windows) :
                     /\ windows'[i].group = windows[i].group
                     /\ windows[i].id \notin {wid, ws[nextpos + 1]} => windows'[i] = windows[i]
                /\ \A g \in 0..(Len(groups) - 1) :
                     Range(windows_in_grp(windows', g)) = Range(windows_in_grp(windows, g))
           ELSE UNCHANGED <<windows, groups, crtc, current_crtc, screen>>]_vars

\* C32: the focused, middle window of a group of three was swapped with the
\* one after it, a window of the other group lying between them or not
MiddleSwappedWithNext ==
  /\ last.op = "swap_with_next_in_group"
  /\ panic = ""
  /\ Len(windows) = 3
  /\ \A i \in 1..3 : windows[i].group = 0
  /\ groups[1].focused_window = windows[3].id
  /\ windows[1].id = 1
  /\ windows[2].id = 3
  /\ windows[3].id = 2


\* C33: after swap_with_next_in_group or swap_with_previous_in_group has
\* exchanged two windows, the index of the group's focused window among the
\* windows of the group is the index it had before the call.
SwapKeepsFocusedIndex ==
  [][LET gid == group_idx(Self)
         wid == focused_window(Self)
         ws == windows_in_grp(windows, gid)
         pos == Position(ws, {w \in Range(ws) : w = wid})
         nextpos == IF last'.op = "swap_with_next_in_group" THEN pos + 1 ELSE pos - 1
         ws1 == windows_in_grp(windows', gid)
     IN (/\ last'.op \in {"swap_with_next_in_group", "swap_with_previous_in_group"}
         /\ panic' = ""
         /\ wid # None /\ pos # -1 /\ nextpos >= 0 /\ nextpos < Len(ws))
        => /\ ws1 = SwapAt(ws, pos, nextpos)
           /\ Position(ws1, {w \in Range(ws1) : w = groups'[gid + 1].focused_window}) = pos]_vars

\* C33: after swap_with_next_in_group or swap_with_previous_in_group has
\* exchanged two windows, the group's focused window is the handle it was
\* before, and its index among the windows of the group is the index the
\* neighbour had before the call: the focus moves with the window.
SwapMovesFocusWithWindow ==
  [][LET gid == group_idx(Self)
         wid == focused_window(Self)
         ws == windows_in_grp(windows, gid)
         pos == Position(ws, {w \in Range(ws) : w = wid})
         nextpos == IF last'.op = "swap_with_next_in_group" THEN pos + 1 ELSE pos - 1
         ws1 == windows_in_grp(windows', gid)
     IN (/\ last'.op \in {"swap_with_next_in_group", "swap_with_previous_in_group"}
         /\ panic' = ""
         /\ wid # None /\ pos # -1 /\ nextpos >= 0 /\ nextpos < Len(ws))
        => /\ ws1 = SwapAt(ws, pos, nextpos)
           /\ groups'[gid + 1].focused_window = wid
           /\ Position(ws1, {w \in Range(ws1) : w = wid}) = nextpos
           /\ ws1[pos + 1] = ws[nextpos + 1]]_vars

\* C33: the focused, last window of a group of two was swapped with the one
\* before it and is now the first of the group
LastSwappedWithPrevious ==
  /\ last.op = "swap_with_previous_in_group"
  /\ panic = ""
  /\ Len(windows) = 3
  /\ windows[1] = Window(2, 0)
  /\ windows[2] = Window(3, 1)
  /\ windows[3] = Window(1, 0)
  /\ groups[1].focused_window = 2


\* C34: on every stack, the empty one and the one of a single element
\* included, focus_next and shuffle_next change nothing when the focused
\* element is the last one, and focus_previous and shuffle_previous change
\* nothing when it is the first one: same order, same focused index, no
\* wraparound and no failure.
BoundaryCallsAreNoOps ==
  LET pre == slast.pre
      at_end == \/ pre.windows = <<>> /\ pre.focused = 0
                \/ pre.windows # <<>> /\ pre.focused = Len(pre.windows) - 1
      at_start == pre.focused = 0
  IN /\ slast.op \in {"focus_next", "shuffle_next"} /\ at_end => stack = pre
     /\ slast.op \in {"focus_previous", "shuffle_previous"} /\ at_start => stack = pre

WithoutStrutNeverInverts ==
  cut.op = "without_strut" /\ cut.src = "viewport" =>
    /\ cut.panic = ""
    /\ cut.out.width >= 0
    /\ cut.out.height >= 0


\* C37: every GroupId of the output assignment table and of the window list
\* is an index of the group list, at startup and after outputs were added
\* with more outputs than groups as well, and no resolution of a group fails.
GroupIdsValid ==
  /\ \A i \in 1..Len(crtc) : crtc[i].gid < Len(groups)
  /\ \A i \in 1..Len(windows) : windows[i].group < Len(groups)
  /\ panic # GroupPanic


\* C38: every layout (stack, tiled, three-column) returns the empty placement
\* list, and does not fail, for an empty window stack and any viewport.
EmptyStackPlacesNothing ==
  placed.layout.kind \in {"stack", "tiled", "three"} /\ stack.windows = <<>> =>
    /\ placed.panic = ""
    /\ placed.out = <<>>


\* C39: for a stack of one window or more and a viewport on which no
\* subtraction of the padding underflows, the tiled and the three-column
\* layout place every window of the stack once, in the order of the stack
\* (columns from left to right, rows from top to bottom), every rectangle
\* lies inside the viewport and no two rectangles of a result overlap.
TilesInsideAndApart ==
  LET out == placed.out
      n == Len(stack.windows)
      r(i) == out[i].vp
  IN placed.layout.kind \in {"tiled", "three"} /\ n >= 1 /\ placed.panic = "" =>
       /\ Len(out) = n
       /\ \A i \in 1..n : out[i].id = stack.windows[i]
       /\ \A i \in 1..n :
            /\ r(i).x >= area.x
            /\ r(i).y >= area.y
            /\ r(i).width >= 0
            /\ r(i).height >= 0
            /\ r(i).x + r(i).width <= area.x + area.width
            /\ r(i).y + r(i).height <= area.y + area.height
       /\ \A i, j \in 1..n :
            i < j => /\ \/ r(i).x + r(i).width <= r(j).x
                        \/ r(i).x = r(j).x /\ r(i).y + r(i).height <= r(j).y
                     /\ \/ r(i).x < r(j).x
                        \/ r(i).x = r(j).x /\ r(i).y < r(j).y

\* C39: five windows in three columns of two, one and two rows, padding 1
FiveInThreeColumns ==
  /\ placed.layout = [kind |-> "three", padding |-> 1]
  /\ placed.panic = ""
  /\ Len(placed.out) = 5
  /\ area = Viewport(16, 0, 13, 8)
  /\ placed.out[1].vp.x = placed.out[2].vp.x
  /\ placed.out[2].vp.x < placed.out[3].vp.x
  /\ placed.out[3].vp.x < placed.out[4].vp.x
  /\ placed.out[4].vp.y < placed.out[5].vp.y


\* C40: group_cycle_layouts changes only the layout index of the group shown
\* on the current output, to (index + 1) modulo the number of layouts; as
\* many calls as there are layouts give the group its layout back; every
\* other group's layout, every group's focus, the window list and the output
\* assignment table stay; and every layout index is an index of the layout
\* list at all times.
CycleLayoutsOfCurrentGroup ==
  LET gid == group_idx(Self)
      after == group_cycle_layouts(Self)
      RECURSIVE times(_, _)
      times(S, k) == IF k = 0 THEN S ELSE times(group_cycle_layouts(S), k - 1)
  IN /\ \A g \in 1..Len(groups) : groups[g].layout_id \in 0..(Len(Layouts) - 1)
     /\ panic = "" /\ after.panic = "" /\ gid # -1 /\ groups_has(Self, gid)
          => /\ after.groups = [groups EXCEPT ![gid + 1].layout_id =
                                                (groups[gid + 1].layout_id + 1) % Len(Layouts)]
             /\ after.groups[gid + 1].layout_id # groups[gid + 1].layout_id
             /\ after.windows = windows
             /\ after.crtc = crtc
             /\ after.current_crtc = current_crtc
             /\ after.screen = screen
             /\ times(Self, Len(Layouts)).groups = groups
             /\ times(Self, Len(Layouts)).panic = ""

\* C40: both groups were taken to the second layout, one after the other,
\* each with a window of its own
BothGroupsAtSecondLayout ==
  /\ panic = ""
  /\ \A g \in 1..Len(groups) :
       /\ groups[g].layout_id = 1
       /\ \E i \in 1..Len(windows) : windows[i].group = g - 1
  /\ group_cycle_layouts(Self).groups[group_idx(Self) + 1].layout_id = 0

====
